---- MODULE Spec2Model ----
(***************************************************************************)
(* Model of the vector store of the Unthinkable KBSE backend: the backend  *)
(* selection of database.py (durable PostgreSQL first, in-memory fallback),*)
(* the InMemoryDatabase of database_memory.py, and the store operations    *)
(* issued by the request handlers of api/ingest.py, api/query.py and       *)
(* api/text_documents.py, with the provider chains and the text chunker    *)
(* (_chunk_text) of api/ingest.py.                                         *)
(*                                                                         *)
(* Each handler runs on the asyncio event loop.  On the in-memory backend  *)
(* no await of a handler suspends (InMemoryDatabase.execute/fetch contain  *)
(* no await), and on PostgreSQL the statements of a handler run inside one *)
(* transaction, so one action per handler is the granularity of the code.  *)
(***************************************************************************)
EXTENDS Integers, Sequences, FiniteSets, TLC

(* ------------------------------ bounds --------------------------------- *)

\* chunks of one insert_document call (length of its chunk list)
MaxChunks == 2
\* uuid4 values drawn for chunk ids in one run
MaxUuid == 3
\* largest max_chunks (LIMIT) of a search; QueryRequest allows 1..20
MaxK == 2
\* most documents in one request of add_text_documents
MaxBatch == 2

\* length of the texts given to _chunk_text, every text up to this length
MaxTextLen == 6
\* largest chunk_size given to _chunk_text with those texts
MaxChunkSize == 4
\* iterations of the loop of _chunk_text followed in one call
MaxIterations == 15
\* length of the long texts, and the chunk_size they are cut with
LongTextLen == 130
LongChunkSize == 120

(* --------------------------- program constants ------------------------- *)

\* ingest.py:108: "max(start + chunk_size - 100, start)"
SENTENCE_LOOKBACK == 100
\* ingest.py:114: "max(start + chunk_size - 50, start)"
WORD_LOOKBACK == 50

\* database.py: "embedding VECTOR(1536)", scaled to the dimension of Vectors
VECTOR_DIM == 2

\* database.py:8-12: the import of database_memory succeeds in this repository
MEMORY_DB_AVAILABLE == TRUE

\* the statements the handlers issue; InMemoryDatabase dispatches on these
\* substrings of the SQL text
INSERT_DOCUMENT == "INSERT INTO documents"
INSERT_CHUNK == "INSERT INTO document_chunks"
DELETE_CHUNKS == "DELETE FROM document_chunks WHERE document_id"
DELETE_DOCUMENT == "DELETE FROM documents WHERE id"
SELECT_SIMILAR == "SELECT dc.content, dc.chunk_index, dc.document_id ... distance"
SELECT_DOCUMENTS == "SELECT * FROM documents ORDER BY created_at DESC"

\* columns of the documents table created by init_database
DocumentColumns == {"id", "filename", "mime_type", "total_chunks", "uploaded_at"}

(* ------------------------------- inputs -------------------------------- *)

DocIds == {"d1", "d2"}

\* the text of a document, chunk by chunk
ChunkText == <<"c0", "c1", "c2", "c3", "c4">>

\* the uploads: a text file of at most one chunk, and longer PDF files
\* (filename, mime_type, chunks)
Uploads ==
    { [filename |-> IF n <= 1 THEN "a.txt" ELSE "b.pdf",
       mime_type |-> IF n <= 1 THEN "text/plain" ELSE "application/pdf",
       chunks |-> SubSeq(ChunkText, 1, n)] : n \in 0..MaxChunks }

\* embedding vectors: none (the empty list) and two opposite vectors
Vectors == { <<>>, <<1, 0>>, <<-1, 0>> }

\* the HTTP requests that can be in progress at the same time: one that
\* writes (an upload or a delete) and one that asks
Writers == {"w1"}

Askers == {"a1"}

Requests == Writers \cup Askers

\* the question of an ask request
Questions == {"q0"}

\* the characters of a text: a letter, a sentence terminator, a blank
Alphabet == {"a", ".", " "}

\* every text of at most MaxTextLen characters, the empty one included
ShortTexts == UNION { [1..n -> Alphabet] : n \in 0..MaxTextLen }

\* chunk_size and overlap with 0 <= overlap < chunk_size
SmallParams ==
    { p \in (1..MaxChunkSize) \X (0..MaxChunkSize) : p[2] < p[1] }

\* the positions (from 0) of a long text at which the two backward searches
\* of the first window start and stop
LongMarks ==
    { LongChunkSize - SENTENCE_LOOKBACK, LongChunkSize - SENTENCE_LOOKBACK + 1,
      LongChunkSize - WORD_LOOKBACK, LongChunkSize - WORD_LOOKBACK + 1,
      LongChunkSize - 1, LongChunkSize }

\* texts longer than SENTENCE_LOOKBACK: letters only, or letters with one
\* terminator or one blank at a mark
LongTexts ==
    { [i \in 1..LongTextLen |-> "a"] }
        \cup { [i \in 1..LongTextLen |-> IF i = mark + 1 THEN c ELSE "a"] :
                   mark \in LongMarks, c \in {".", " "} }

LongParams ==
    { <<LongChunkSize, overlap>> :
          overlap \in {0, LongChunkSize - SENTENCE_LOOKBACK, LongChunkSize - 10} }

\* the lengths of response['embedding'] of genai.embed_content: the code
\* stores whatever the service returns, of the declared dimension or not
GeminiLengths == { VECTOR_DIM - 1, VECTOR_DIM }

\* question embeddings: one equal to a vector of Vectors and opposite to the
\* other, one orthogonal to both
QueryVectors == { <<1, 0>>, <<0, 1>> }

VARIABLES
    using_memory_db,   \* database.py: _using_memory_db
    initialized,       \* main.py: lifespan has run init_database
    memory_db,         \* database_memory.py: _memory_db (documents, chunks, embeddings)
    pg,                \* the PostgreSQL tables documents and document_chunks
    next_uuid,         \* number of uuid4 values drawn so far
    last,              \* the last call and what it returned to its caller
    ai,                \* GROQ_AVAILABLE, GEMINI_AVAILABLE_FOR_USE and the
                       \* length of the vectors of "models/embedding-001"
    reqs,              \* the HTTP requests in progress, each at its await point
    chunking           \* a call of _chunk_text: its arguments and locals

vars == <<using_memory_db, initialized, memory_db, pg, next_uuid, last, ai,
          reqs, chunking>>

(* ------------------------------ helpers -------------------------------- *)

Min(a, b) == IF a <= b THEN a ELSE b

RECURSIVE SumTo(_, _)
SumTo(f, n) == IF n = 0 THEN 0 ELSE f[n] + SumTo(f, n - 1)

\* sum(a * b for a, b in zip(vec1, vec2)), for vectors of equal length
Dot(vec1, vec2) == SumTo([i \in 1..Len(vec1) |-> vec1[i] * vec2[i]], Len(vec1))

RECURSIVE SelectRows(_, _, _)
\* the rows of seq, in order, whose document_id is (keep) or is not doc_id
SelectRows(seq, doc_id, keep) ==
    IF seq = <<>> THEN <<>>
    ELSE LET rest == SelectRows(Tail(seq), doc_id, keep)
         IN IF (Head(seq).document_id = doc_id) = keep
            THEN <<Head(seq)>> \o rest ELSE rest

Range(seq) == { seq[i] : i \in 1..Len(seq) }

(* ---------------------- distances (exact arithmetic) -------------------- *)

\* A distance 1 - s, s the cosine similarity, is kept as the signed square of
\* s: [num, den] with s = sgn(num) * sqrt(|num| / den), den > 0.
\* The distance 1.0 is s = 0, the distance 0 is s = 1, the distance 2 is s = -1.
DistanceOne == [num |-> 0, den |-> 1]

\* d1 < d2: the similarity of d1 is the larger one
DistLess(d1, d2) == d1.num * d2.den > d2.num * d1.den

DistEq(d1, d2) == d1.num * d2.den = d2.num * d1.den

DistLeq(d1, d2) == ~DistLess(d2, d1)

\* InMemoryDatabase._cosine_distance
CosineDistance(vec1, vec2) ==
    IF Len(vec1) = 0 \/ Len(vec2) = 0 \/ Len(vec1) # Len(vec2)
    THEN DistanceOne
    ELSE LET dot_product == Dot(vec1, vec2)
             sq1 == Dot(vec1, vec1)
             sq2 == Dot(vec2, vec2)
         IN IF sq1 = 0 \/ sq2 = 0
            THEN DistanceOne
            ELSE [num |-> IF dot_product >= 0 THEN dot_product * dot_product
                          ELSE 0 - dot_product * dot_product,
                  den |-> sq1 * sq2]

(* ------------------- InMemoryDatabase (database_memory.py) ------------- *)

\* InMemoryDatabase.__init__
EmptyMemoryDb == [documents |-> <<>>, chunks |-> <<>>, embeddings |-> <<>>]

\* a dict with key k set to v
DictSet(d, k, v) == [x \in DOMAIN d \cup {k} |-> IF x = k THEN v ELSE d[x]]

\* a dict without the keys of ks
DictDel(d, ks) == [x \in DOMAIN d \ ks |-> d[x]]

\* execute, branch "INSERT INTO documents": self.documents[doc_id] = {...}
MemInsertDocument(db, params) ==
    [db EXCEPT !.documents =
        DictSet(db.documents, params[1],
                [id |-> params[1], filename |-> params[2],
                 mime_type |-> params[3], total_chunks |-> params[4]])]

\* MemInsertChunk, had the embedding not been stored with the chunk
MemInsertChunkWithoutEmbedding(db, params) ==
    [db EXCEPT !.chunks = Append(db.chunks,
                              [id |-> params[1], document_id |-> params[2],
                               chunk_index |-> params[3], content |-> params[4]])]

\* execute, branch "INSERT INTO document_chunks": self.chunks[chunk_id] = {...}
\* (a dict keeps insertion order; a key already present keeps its place)
MemInsertChunk(db, params) ==
    LET row == [id |-> params[1], document_id |-> params[2],
                chunk_index |-> params[3], content |-> params[4]]
        at == { i \in 1..Len(db.chunks) : db.chunks[i].id = params[1] }
        chunks == IF at = {} THEN Append(db.chunks, row)
                  ELSE [i \in 1..Len(db.chunks) |->
                           IF i \in at THEN row ELSE db.chunks[i]]
    IN [db EXCEPT !.chunks = chunks,
                  !.embeddings = IF Len(params) > 4
                                 THEN DictSet(db.embeddings, params[1], params[5])
                                 ELSE db.embeddings]

\* MemDeleteChunks, had the branch been left out (PostgreSQL cascades, a dict
\* does not)
MemDeleteChunksSkipped(db, params) == db

\* MemDeleteChunks, had the comprehension lost its filter on document_id
MemDeleteChunksAll(db, params) ==
    [db EXCEPT !.chunks = <<>>, !.embeddings = <<>>]

\* execute, branch "DELETE FROM document_chunks WHERE document_id"
MemDeleteChunks(db, params) ==
    LET chunks_to_remove == { c.id : c \in { r \in Range(db.chunks) :
                                             r.document_id = params[1] } }
    IN [db EXCEPT !.chunks = SelectRows(db.chunks, params[1], FALSE),
                  !.embeddings = DictDel(db.embeddings, chunks_to_remove)]

\* MemDeleteDocument, had the row been kept
MemDeleteDocumentSkipped(db, params) == db

\* execute, branch "DELETE FROM documents WHERE id"
MemDeleteDocument(db, params) ==
    IF params[1] \in DOMAIN db.documents
    THEN [db EXCEPT !.documents = DictDel(db.documents, {params[1]})]
    ELSE db

\* InMemoryDatabase.execute
MemExecute(db, query, params) ==
    IF query = INSERT_DOCUMENT THEN MemInsertDocument(db, params)
    ELSE IF query = INSERT_CHUNK THEN MemInsertChunk(db, params)
    ELSE IF query = DELETE_CHUNKS THEN MemDeleteChunks(db, params)
    ELSE IF query = DELETE_DOCUMENT THEN MemDeleteDocument(db, params)
    ELSE db

\* self.embeddings.get(chunk_id, [])
MemEmbedding(db, chunk_id) ==
    IF chunk_id \in DOMAIN db.embeddings THEN db.embeddings[chunk_id] ELSE <<>>

\* fetch, similarity branch: the distance given to one chunk
MemDistance(db, chunk_id, query_embedding) ==
    LET chunk_embedding == MemEmbedding(db, chunk_id)
    IN IF Len(chunk_embedding) > 0 /\ Len(query_embedding) > 0
       THEN CosineDistance(query_embedding, chunk_embedding)
       ELSE DistanceOne

\* fetch, similarity branch: results_with_distance before the sort
MemResultsWithDistance(db, query_embedding) ==
    [i \in 1..Len(db.chunks) |->
        [content |-> db.chunks[i].content,
         chunk_index |-> db.chunks[i].chunk_index,
         document_id |-> db.chunks[i].document_id,
         distance |-> MemDistance(db, db.chunks[i].id, query_embedding)]]

\* InsertByDistance of a sort that is not stable: r goes before the rows of
\* equal key
InsertByDistanceUnstable(sorted, r) ==
    LET before == { i \in 1..Len(sorted) : DistLeq(r.distance, sorted[i].distance) }
        pos == IF before = {} THEN Len(sorted) + 1
               ELSE CHOOSE i \in before : \A j \in before : i <= j
    IN SubSeq(sorted, 1, pos - 1) \o <<r>> \o SubSeq(sorted, pos, Len(sorted))

\* one step of list.sort: r goes after every row whose key is not greater
InsertByDistance(sorted, r) ==
    LET before == { i \in 1..Len(sorted) : DistLess(r.distance, sorted[i].distance) }
        pos == IF before = {} THEN Len(sorted) + 1
               ELSE CHOOSE i \in before : \A j \in before : i <= j
    IN SubSeq(sorted, 1, pos - 1) \o <<r>> \o SubSeq(sorted, pos, Len(sorted))

RECURSIVE SortFrom(_, _)
SortFrom(sorted, rest) ==
    IF rest = <<>> THEN sorted
    ELSE SortFrom(InsertByDistance(sorted, Head(rest)), Tail(rest))

\* results_with_distance.sort(key=lambda x: x['distance']): a stable sort
SortByDistance(rows) == SortFrom(<<>>, rows)

\* Slice, had the limit been dropped
SliceAll(rows, limit) == rows

\* results_with_distance[:limit], limit >= 1
Slice(rows, limit) == SubSeq(rows, 1, Min(limit, Len(rows)))

\* InMemoryDatabase.fetch; the handlers issue no other SELECT than these two
MemFetch(db, query, params) ==
    IF query = SELECT_SIMILAR
    THEN Slice(SortByDistance(MemResultsWithDistance(db, params[1])), params[2])
    ELSE <<>>

\* the Source objects the callers of search build from the rows: the distance
\* is not part of them
Sources(rows) ==
    [i \in 1..Len(rows) |->
        [content |-> rows[i].content, chunk_index |-> rows[i].chunk_index,
         document_id |-> rows[i].document_id]]

(* ------------- PostgreSQL: the statements of the handlers -------------- *)

\* the tables of init_database, empty
EmptyPg == [documents |-> <<>>, document_chunks |-> <<>>]

\* "INSERT INTO documents ... ON CONFLICT (id) DO NOTHING"
PgInsertDocument(db, params) ==
    IF params[1] \in DOMAIN db.documents THEN db
    ELSE [db EXCEPT !.documents =
             DictSet(db.documents, params[1],
                     [id |-> params[1], filename |-> params[2],
                      mime_type |-> params[3], total_chunks |-> params[4]])]

\* "embedding VECTOR(1536)": a vector of another dimension is rejected
PgVectorOk(embedding) == Len(embedding) = VECTOR_DIM

\* "INSERT INTO document_chunks (id, document_id, chunk_index, content, embedding)"
PgInsertChunk(db, params) ==
    [db EXCEPT !.document_chunks =
        Append(db.document_chunks,
               [id |-> params[1], document_id |-> params[2],
                chunk_index |-> params[3], content |-> params[4],
                embedding |-> params[5]])]

\* "DELETE FROM document_chunks WHERE document_id = $1"
PgDeleteChunks(db, params) ==
    [db EXCEPT !.document_chunks = SelectRows(db.document_chunks, params[1], FALSE)]

\* "DELETE FROM documents WHERE id = $1", with
\* "document_id TEXT NOT NULL REFERENCES documents(id) ON DELETE CASCADE"
PgDeleteDocument(db, params) ==
    [db EXCEPT !.documents = DictDel(db.documents, {params[1]}),
               !.document_chunks = SelectRows(db.document_chunks, params[1], FALSE)]

\* "dc.embedding <-> $1": the squared Euclidean distance (same order as <->)
PgDistance(vec1, vec2) ==
    SumTo([i \in 1..Len(vec1) |-> (vec1[i] - vec2[i]) * (vec1[i] - vec2[i])],
          Len(vec1))

\* the rows of the similarity SELECT, in table order
PgResultsWithDistance(db, query_embedding) ==
    [i \in 1..Len(db.document_chunks) |->
        [content |-> db.document_chunks[i].content,
         chunk_index |-> db.document_chunks[i].chunk_index,
         document_id |-> db.document_chunks[i].document_id,
         distance |-> PgDistance(db.document_chunks[i].embedding, query_embedding)]]

\* "ORDER BY distance LIMIT $2": every order of the rows that is ascending in
\* the distance (SQL leaves the order of equal keys open), cut at the limit
PgFetchSimilar(db, query_embedding, limit) ==
    LET rows == PgResultsWithDistance(db, query_embedding)
        n == Len(rows)
        perms == { p \in Permutations(1..n) :
                     \A i \in 1..n : i < n =>
                         rows[p[i]].distance <= rows[p[i + 1]].distance }
    IN { Slice([i \in 1..n |-> rows[p[i]]], limit) : p \in perms }

\* "SELECT * FROM documents ORDER BY created_at DESC": the statement is valid
\* when the column it orders by is a column of the table
PgListOk == "created_at" \in DocumentColumns

(* --------------------- backend selection (database.py) ------------------ *)

\* GetDbConnection, had it not read _using_memory_db before connecting
GetDbConnectionRetrying(using, connect_ok) ==
    IF connect_ok
    THEN [conn |-> "pg", using |-> using, attempted |-> TRUE, raised |-> FALSE]
    ELSE [conn |-> "memory", using |-> TRUE, attempted |-> TRUE, raised |-> FALSE]

\* GetDbConnection, had the except branch re-raised the connection failure
GetDbConnectionRaising(using, connect_ok) ==
    IF ~using /\ connect_ok
    THEN [conn |-> "pg", using |-> using, attempted |-> TRUE, raised |-> FALSE]
    ELSE IF ~using
    THEN [conn |-> "none", using |-> using, attempted |-> TRUE, raised |-> TRUE]
    ELSE [conn |-> "memory", using |-> using, attempted |-> FALSE, raised |-> FALSE]

\* get_db_connection, connect_ok the outcome of asyncpg.connect when it is
\* called: the connection returned, the new _using_memory_db, whether a durable
\* connection was attempted, whether the call raised
GetDbConnection(using, connect_ok) ==
    IF ~using /\ connect_ok
    THEN [conn |-> "pg", using |-> using, attempted |-> TRUE, raised |-> FALSE]
    ELSE IF ~using
    THEN IF MEMORY_DB_AVAILABLE
         THEN [conn |-> "memory", using |-> TRUE, attempted |-> TRUE, raised |-> FALSE]
         ELSE [conn |-> "none", using |-> using, attempted |-> TRUE, raised |-> TRUE]
    ELSE IF using /\ MEMORY_DB_AVAILABLE
    THEN [conn |-> "memory", using |-> using, attempted |-> FALSE, raised |-> FALSE]
    ELSE [conn |-> "none", using |-> using, attempted |-> FALSE, raised |-> TRUE]

\* "hasattr(conn, 'close')": an asyncpg connection has a close method,
\* InMemoryDatabase has none
HasClose(conn) == conn = "pg"

\* the durable connections a call has acquired: asyncpg.connect returned one
Opened(conn) == IF conn = "pg" THEN 1 ELSE 0

\* Closed, had conn.close() been the last statement of the try block
ClosedUnlessRaised(conn, raised) == IF HasClose(conn) /\ ~raised THEN 1 ELSE 0

\* the closes of a call, raised telling whether a statement run on the
\* connection raised: "finally: if hasattr(conn, 'close'): await conn.close()"
Closed(conn, raised) == IF HasClose(conn) THEN 1 ELSE 0

\* what a call reports: the operation, its document id, how it ended, the
\* backend it ran on, whether it attempted a durable connection, the durable
\* connections it acquired and closed, and for a search the question
\* embedding, the limit and the rows returned
Report(op, id, status, c, q, k, rows) ==
    [op |-> op, id |-> id, status |-> status, conn |-> c.conn,
     attempted |-> c.attempted, q |-> q, k |-> k, rows |-> rows,
     mismatch |-> FALSE, outcome |-> "",
     opened |-> Opened(c.conn), closed |-> Closed(c.conn, status = "error")]

\* what a call of _store_in_db reports: also whether it was given chunks and
\* embeddings of different lengths
InsertReport(id, status, c, len_chunks, len_embeddings) ==
    [Report("insert", id, status, c, <<>>, 0, <<>>)
        EXCEPT !.mismatch = (len_chunks # len_embeddings)]

NoConnection == [conn |-> "none", attempted |-> FALSE]

\* the steps at which init_database can fail
InitOutcomes ==
    {"ok", "connect_failed", "create_table_failed", "index_failed",
     "vector_index_failed"}

\* InitRaises, had the CREATE INDEX on embedding not been wrapped in its own
\* try/except
InitRaisesUncaught(outcome) == outcome # "ok"

\* the outcomes at which an exception leaves the try block of init_database:
\* asyncpg.connect, a CREATE TABLE or the CREATE INDEX on document_id raised;
\* the exception of the index on embedding is caught where it is raised
InitRaises(outcome) ==
    outcome \in {"connect_failed", "create_table_failed", "index_failed"}

\* init_database: the new _using_memory_db, whether a durable connection
\* was attempted, and the durable connections acquired and closed
InitDatabaseResult(using, outcome) ==
    LET opened == IF outcome = "connect_failed" THEN 0 ELSE 1
        closed == IF opened = 1 THEN Closed("pg", InitRaises(outcome)) ELSE 0
    IN IF ~using
       THEN IF InitRaises(outcome)
            THEN IF MEMORY_DB_AVAILABLE
                 THEN [using |-> TRUE, attempted |-> TRUE, status |-> "ok",
                       opened |-> opened, closed |-> closed]
                 ELSE [using |-> using, attempted |-> TRUE, status |-> "error",
                       opened |-> opened, closed |-> closed]
            ELSE [using |-> using, attempted |-> TRUE, status |-> "ok",
                  opened |-> opened, closed |-> closed]
       ELSE [using |-> using, attempted |-> FALSE, status |-> "ok",
             opened |-> 0, closed |-> 0]

(* ------------------------- the store operations ------------------------ *)

\* LengthsDiffer, had _store_in_db not compared the two lengths
LengthsDifferIgnored(len_chunks, len_embeddings) == FALSE

\* _store_in_db: "if len(chunks) != len(embeddings)"
LengthsDiffer(len_chunks, len_embeddings) == len_chunks # len_embeddings

\* str(uuid.uuid4()): the n-th value drawn
Uuid(n) == n

RECURSIVE MemInsertChunks(_, _, _, _, _, _)
\* _store_in_db, memory branch: "for idx, (content, embedding) in
\* enumerate(zip(chunks, embeddings))", from position idx + 1 on
MemInsertChunks(db, document_id, chunks, embeddings, idx, uuid0) ==
    IF idx >= Min(Len(chunks), Len(embeddings)) THEN db
    ELSE MemInsertChunks(
             MemExecute(db, INSERT_CHUNK,
                        <<Uuid(uuid0 + idx + 1), document_id, idx,
                          chunks[idx + 1], embeddings[idx + 1]>>),
             document_id, chunks, embeddings, idx + 1, uuid0)

\* _store_in_db, memory branch (ingest.py:195-222)
MemStoreInDb(db, document_id, filename, mime_type, chunks, embeddings, uuid0) ==
    MemInsertChunks(
        MemExecute(db, INSERT_DOCUMENT,
                   <<document_id, filename, mime_type, Len(chunks)>>),
        document_id, chunks, embeddings, 0, uuid0)

\* delete_document, memory branch
MemDeleteInDb(db, document_id) ==
    MemExecute(MemExecute(db, DELETE_CHUNKS, <<document_id>>),
               DELETE_DOCUMENT, <<document_id>>)

RECURSIVE PgInsertChunks(_, _, _, _, _, _)
\* _store_in_db, PostgreSQL branch: the loop over the chunks
PgInsertChunks(db, document_id, chunks, embeddings, idx, uuid0) ==
    IF idx >= Min(Len(chunks), Len(embeddings)) THEN db
    ELSE PgInsertChunks(
             PgInsertChunk(db, <<Uuid(uuid0 + idx + 1), document_id, idx,
                                 chunks[idx + 1], embeddings[idx + 1]>>),
             document_id, chunks, embeddings, idx + 1, uuid0)

\* _store_in_db, PostgreSQL branch: "async with conn.transaction()" commits
\* all statements, or none when one of them raises
PgStoreInDb(db, document_id, filename, mime_type, chunks, embeddings, uuid0) ==
    IF \A i \in 1..Len(embeddings) : PgVectorOk(embeddings[i])
    THEN [ok |-> TRUE,
          db |-> PgInsertChunks(
                     PgInsertDocument(db, <<document_id, filename, mime_type,
                                            Len(chunks)>>),
                     document_id, chunks, embeddings, 0, uuid0)]
    ELSE [ok |-> FALSE, db |-> db]

\* delete_document, PostgreSQL branch
PgDeleteInDb(db, document_id) ==
    PgDeleteDocument(PgDeleteChunks(db, <<document_id>>), <<document_id>>)

(* ------------------------ _chunk_text (ingest.py) ----------------------- *)
(* A text is the sequence of its characters; positions count from 0 as in   *)
(* the code, and a negative position counts from the end of the text.       *)

Max(a, b) == IF a >= b THEN a ELSE b

SetMax(S) == CHOOSE x \in S : \A y \in S : y <= x

\* "if text[i] in '.!?'"
Terminators == {".", "!", "?"}

\* text[i] is defined for -len(text) <= i < len(text), else IndexError
InRange(text, i) == i >= 0 - Len(text) /\ i < Len(text)

\* text[i]
PyAt(text, i) == text[IF i >= 0 THEN i + 1 ELSE Len(text) + i + 1]

\* a bound of a slice: a negative one counts from the end, and both are
\* brought into 0..len(text)
Clamp(text, i) == IF i < 0 THEN Max(Len(text) + i, 0) ELSE Min(i, Len(text))

\* text[start:end]
PySlice(text, start, end) ==
    IF Clamp(text, end) <= Clamp(text, start) THEN <<>>
    ELSE SubSeq(text, Clamp(text, start) + 1, Clamp(text, end))

\* str.strip(): the blanks at both ends removed
Strip(chunk) ==
    LET kept == { i \in 1..Len(chunk) : chunk[i] # " " }
    IN IF kept = {} THEN <<>>
       ELSE SubSeq(chunk, CHOOSE i \in kept : \A j \in kept : i <= j, SetMax(kept))

\* "for i in range(end, stop, -1): if text[i] in wanted: ... break": the first
\* position met going down from end to stop + 1 whose character is wanted,
\* or IndexError at a position below -len(text)
BackwardSearch(text, end, stop, wanted) ==
    LET hits == { i \in (stop + 1)..end :
                      InRange(text, i) /\ PyAt(text, i) \in wanted }
    IN IF hits # {}
       THEN [found |-> TRUE, raised |-> FALSE, i |-> SetMax(hits)]
       ELSE [found |-> FALSE, i |-> end,
             raised |-> \E i \in (stop + 1)..end : ~InRange(text, i)]

\* the end of the window that starts at start (ingest.py:103-117) and how it
\* was found
CutEnd(text, start, chunk_size) ==
    LET end == start + chunk_size
        sentence == BackwardSearch(text, end,
                        Max(start + chunk_size - SENTENCE_LOOKBACK, start),
                        Terminators)
        word == BackwardSearch(text, end,
                        Max(start + chunk_size - WORD_LOOKBACK, start), {" "})
    IN IF ~(end < Len(text)) THEN [end |-> end, how |-> "last", raised |-> FALSE]
       ELSE IF sentence.found
       THEN [end |-> sentence.i + 1, how |-> "sentence", raised |-> FALSE]
       ELSE IF sentence.raised
       THEN [end |-> end, how |-> "sentence", raised |-> TRUE]
       ELSE IF word.found
       THEN [end |-> word.i, how |-> "word", raised |-> FALSE]
       ELSE [end |-> end, how |-> "hard", raised |-> word.raised]

\* FitsOneChunk, had _chunk_text sent every text through its loop
FitsOneChunkNever(text, chunk_size) == FALSE

\* "if len(text) <= chunk_size"
FitsOneChunk(text, chunk_size) == Len(text) <= chunk_size

\* "[chunk for chunk in chunks if chunk]"
NonEmpty(chunks) == SelectSeq(chunks, LAMBDA chunk : chunk # <<>>)

(* ------------------------------- actions ------------------------------- *)

TypeOK ==
    /\ using_memory_db \in BOOLEAN
    /\ initialized \in BOOLEAN
    /\ next_uuid \in 0..MaxUuid
    /\ DOMAIN memory_db.documents \subseteq DocIds
    /\ DOMAIN pg.documents \subseteq DocIds
    /\ last.op \in {"none", "init", "insert", "delete", "search", "list",
                  "batch"}
    /\ ai \in [groq : BOOLEAN, gemini : BOOLEAN, dim : GeminiLengths]
    /\ chunking.pc \in {"idle", "call", "loop", "returned", "IndexError"}
    /\ chunking.overlap \in 0..(chunking.chunk_size - 1)
    /\ \A r \in Requests :
           /\ reqs[r].kind \in {"idle", "upload", "ask", "delete"}
           /\ reqs[r].pc \in {"idle", "embed", "store", "search", "synthesize",
                               "delete", "done"}

\* no call of _chunk_text under way
NoChunking ==
    [pc |-> "idle", text |-> <<>>, chunk_size |-> 1, overlap |-> 0,
     start |-> 0, windows |-> <<>>, chunks |-> <<>>, result |-> <<>>]

\* no request received yet
NoResponse == [status |-> "", answer |-> "", sources |-> <<>>, total_chunks |-> 0]

IdleRequest ==
    [kind |-> "idle", pc |-> "idle", id |-> "", texts |-> <<>>, k |-> 0,
     embeddings |-> <<>>, providers |-> <<>>, rows |-> <<>>, calls |-> <<>>,
     steps |-> <<>>, written |-> 0, during |-> FALSE, response |-> NoResponse]

\* the state at import time, both API keys configured
InitStore ==
    /\ using_memory_db = FALSE
    /\ initialized = FALSE
    /\ memory_db = EmptyMemoryDb
    /\ pg = EmptyPg
    /\ next_uuid = 0
    /\ last = Report("none", "", "ok", NoConnection, <<>>, 0, <<>>)
    /\ reqs = [r \in Requests |-> IdleRequest]

Init ==
    /\ InitStore
    /\ ai = [groq |-> TRUE, gemini |-> TRUE, dim |-> VECTOR_DIM]
    /\ chunking = NoChunking

\* main.py lifespan: init_database before the first request; the function may
\* be called again later
InitDatabaseWith(outcomes) ==
    \E outcome \in outcomes :
        LET r == InitDatabaseResult(using_memory_db, outcome)
        IN /\ using_memory_db' = r.using
           /\ initialized' = TRUE
           /\ last' = [Report("init", "", r.status,
                               [conn |-> IF r.using THEN "memory" ELSE "pg",
                                attempted |-> r.attempted], <<>>, 0, <<>>)
                           EXCEPT !.outcome = IF r.attempted THEN outcome ELSE "",
                                  !.opened = r.opened, !.closed = r.closed]
           /\ UNCHANGED <<memory_db, pg, next_uuid, ai, reqs, chunking>>

\* insert_document: _store_in_db(document_id, filename, mime_type, chunks,
\* embeddings), the embeddings a list of n vectors
InsertDocumentWith(vectors, connects) ==
    \E document_id \in DocIds, upload \in Uploads, n \in 0..MaxChunks :
        /\ initialized
        /\ next_uuid + Len(upload.chunks) <= MaxUuid
        /\ IF LengthsDiffer(Len(upload.chunks), n)
           THEN /\ last' = InsertReport(document_id, "ValueError",
                                        NoConnection, Len(upload.chunks), n)
                /\ UNCHANGED <<using_memory_db, initialized, memory_db, pg,
                               next_uuid, ai, reqs, chunking>>
           ELSE \E embeddings \in [1..n -> vectors], connect_ok \in connects :
                LET c == GetDbConnection(using_memory_db, connect_ok)
                    t == PgStoreInDb(pg, document_id, upload.filename,
                                     upload.mime_type, upload.chunks, embeddings,
                                     next_uuid)
                IN /\ using_memory_db' = c.using
                   /\ UNCHANGED <<initialized, ai, reqs, chunking>>
                   /\ next_uuid' = IF c.raised THEN next_uuid
                                   ELSE next_uuid + Len(upload.chunks)
                   /\ memory_db' = IF c.conn = "memory"
                                   THEN MemStoreInDb(memory_db, document_id,
                                                     upload.filename, upload.mime_type,
                                                     upload.chunks, embeddings,
                                                     next_uuid)
                                   ELSE memory_db
                   /\ pg' = IF c.conn = "pg" THEN t.db ELSE pg
                   /\ last' = InsertReport(document_id,
                                           IF c.raised \/ (c.conn = "pg" /\ ~t.ok)
                                           THEN "error" ELSE "ok",
                                           c, Len(upload.chunks), n)

\* delete_document(document_id) (ingest.py and text_documents.py, the same code)
DeleteDocumentWith(connects) ==
    \E document_id \in DocIds, connect_ok \in connects :
        LET c == GetDbConnection(using_memory_db, connect_ok)
        IN /\ initialized
           /\ using_memory_db' = c.using
           /\ memory_db' = IF c.conn = "memory"
                           THEN MemDeleteInDb(memory_db, document_id)
                           ELSE memory_db
           /\ pg' = IF c.conn = "pg" THEN PgDeleteInDb(pg, document_id) ELSE pg
           /\ last' = Report("delete", document_id,
                             IF c.raised THEN "error" ELSE "ok", c, <<>>, 0, <<>>)
           /\ UNCHANGED <<initialized, next_uuid, ai, reqs, chunking>>

\* search: the retrieval step of query_ask and query_text_documents
SearchWith(queries, connects) ==
    \E q \in queries, k \in 1..MaxK, connect_ok \in connects :
        LET c == GetDbConnection(using_memory_db, connect_ok)
        IN /\ initialized
           /\ using_memory_db' = c.using
           /\ \E rows \in IF c.conn = "memory"
                          THEN {MemFetch(memory_db, SELECT_SIMILAR, <<q, k>>)}
                          ELSE IF c.conn = "pg" THEN PgFetchSimilar(pg, q, k)
                          ELSE {<<>>} :
                  last' = Report("search", "", IF c.raised THEN "error" ELSE "ok",
                                 c, q, k, rows)
           /\ UNCHANGED <<initialized, memory_db, pg, next_uuid, ai, reqs, chunking>>

\* list_documents (text_documents.py)
ListDocumentsWith(connects) ==
    \E connect_ok \in connects :
        LET c == GetDbConnection(using_memory_db, connect_ok)
            ok == ~c.raised /\ (c.conn = "pg" => PgListOk)
            rows == IF c.conn = "memory"
                    THEN MemFetch(memory_db, SELECT_DOCUMENTS, <<>>)
                    ELSE <<>>
        IN /\ initialized
           /\ using_memory_db' = c.using
           /\ last' = Report("list", "", IF ok THEN "ok" ELSE "error",
                             c, <<>>, 0, rows)
           /\ UNCHANGED <<initialized, memory_db, pg, next_uuid, ai, reqs, chunking>>

(* ---- the service with PostgreSQL reachable or not, call by call ---- *)

\* the embedding of the chunks stored while both backends are in play
StoreVectors == { <<1, 0>> }

InitDatabase == InitDatabaseWith(InitOutcomes)

InsertDocument == InsertDocumentWith(StoreVectors, BOOLEAN)

DeleteDocument == DeleteDocumentWith(BOOLEAN)

Search == SearchWith({<<1, 0>>}, BOOLEAN)

ListDocuments == ListDocumentsWith(BOOLEAN)

Next ==
    \/ InitDatabase
    \/ InsertDocument
    \/ DeleteDocument
    \/ Search
    \/ ListDocuments

Spec == Init /\ [][Next]_vars

(* ---- the service run without PostgreSQL ("development without      ---- *)
(* ---- PostgreSQL", database_memory.py): every connection fails      ---- *)

MemInitDatabase == InitDatabaseWith({"connect_failed"})

MemInsert == InsertDocumentWith(Vectors, {FALSE})

MemDelete == DeleteDocumentWith({FALSE})

MemSearch == SearchWith(QueryVectors, {FALSE})

MemList == ListDocumentsWith({FALSE})

NextMemory ==
    \/ MemInitDatabase
    \/ MemInsert
    \/ MemDelete
    \/ MemSearch
    \/ MemList

SpecMemory == Init /\ [][NextMemory]_vars

(* ---- the service run without PostgreSQL, chunks whose embeddings  ---- *)
(* ---- differ in length (norm), the all-zero vector among them      ---- *)

\* embeddings of norm 0, 3 and sqrt(2); the fallback of _embed_texts gives the
\* chunk "" the all-zero vector (ingest.py:158-177, _chunk_text("") = [""])
RankVectors == { <<0, 0>>, <<3, 0>>, <<1, 1>> }

RankQueries == { <<1, 0>>, <<0, 0>>, <<3, 0>> }

RankInsert == InsertDocumentWith(RankVectors, {FALSE})

RankSearch == SearchWith(RankQueries, {FALSE})

NextRanking ==
    \/ MemInitDatabase
    \/ RankInsert
    \/ MemDelete
    \/ RankSearch
    \/ MemList

SpecRanking == Init /\ [][NextRanking]_vars

(* ------- the provider chains (ingest.py, query.py, text_documents.py) --- *)

\* len(text.lower().split()) of the texts of the model, none of which holds a
\* blank
WordCount(text) == IF text = "" THEN 0 ELSE 1

\* genai.embed_content(model="models/embedding-001", content=text)['embedding']:
\* the vector the service gives to a text
GeminiEmbedding(text) ==
    IF text \in {"c0", "q0"} THEN <<1, 0>>
    ELSE IF text = "c1" THEN <<0, 1>>
    ELSE <<1, 1>>

\* response['embedding'] when the model of the service returns cfg.dim values
GeminiResponse(cfg, text) ==
    [i \in 1..cfg.dim |-> IF i <= Len(GeminiEmbedding(text))
                          THEN GeminiEmbedding(text)[i] ELSE 0]

\* the fallback embedding: embedding[0] = min(word_count / 100.0, 1.0) and
\* embedding[1] = min(len(text) / 1000.0, 1.0), in thousandths
GroqEmbedding(text) ==
    <<10 * Min(WordCount(text), 100), Min(Len(text), 1000)>>

\* one attempt of a provider within a chain, on the text at position text
Call(chain, provider, text, ok) ==
    [chain |-> chain, provider |-> provider, text |-> text, ok |-> ok]

\* the attempts of a provider over a batch of n texts when it raises on the
\* text at position fails_at (0: on none): the loop stops at the exception
BatchCalls(provider, n, fails_at) ==
    [i \in 1..(IF fails_at = 0 THEN n ELSE Min(fails_at, n)) |->
        Call("embed", provider, i, i # fails_at)]

\* EmbedTexts, had the fallback carried on from the text on which Gemini
\* raised, keeping the vectors Gemini had returned
EmbedTextsResuming(cfg, texts, gemini_fails_at, groq_fails_at) ==
    LET n == Len(texts)
        gemini_ok == cfg.gemini /\ gemini_fails_at = 0
        groq_tried == ~gemini_ok /\ cfg.groq
        from == IF cfg.gemini THEN gemini_fails_at ELSE 1
        groq_ok == groq_tried /\ groq_fails_at = 0
    IN [status |-> IF gemini_ok \/ groq_ok THEN "ok" ELSE "502",
        embeddings |->
            IF gemini_ok THEN [i \in 1..n |-> GeminiResponse(cfg, texts[i])]
            ELSE IF groq_ok
            THEN [i \in 1..n |-> IF i < from THEN GeminiResponse(cfg, texts[i])
                                 ELSE GroqEmbedding(texts[i])]
            ELSE <<>>,
        providers |->
            IF gemini_ok THEN [i \in 1..n |-> "gemini"]
            ELSE IF groq_ok
            THEN [i \in 1..n |-> IF i < from THEN "gemini" ELSE "groq"]
            ELSE <<>>,
        calls |-> (IF cfg.gemini THEN BatchCalls("gemini", n, gemini_fails_at)
                   ELSE <<>>)
                  \o (IF groq_tried
                      THEN [i \in 1..(n - from + 1) |->
                               Call("embed", "groq", from + i - 1, TRUE)]
                      ELSE <<>>)]

\* _embed_texts(texts): Gemini when configured, text by text; on an exception
\* the fallback, from the first text on; else HTTP 502.
\* gemini_fails_at, groq_fails_at: the text on which the provider raises (0: none)
EmbedTexts(cfg, texts, gemini_fails_at, groq_fails_at) ==
    LET n == Len(texts)
        gemini_ok == cfg.gemini /\ gemini_fails_at = 0
        groq_tried == ~gemini_ok /\ cfg.groq
        groq_ok == groq_tried /\ groq_fails_at = 0
    IN [status |-> IF gemini_ok \/ groq_ok THEN "ok" ELSE "502",
        embeddings |->
            IF gemini_ok THEN [i \in 1..n |-> GeminiResponse(cfg, texts[i])]
            ELSE IF groq_ok THEN [i \in 1..n |-> GroqEmbedding(texts[i])]
            ELSE <<>>,
        providers |->
            IF gemini_ok THEN [i \in 1..n |-> "gemini"]
            ELSE IF groq_ok THEN [i \in 1..n |-> "groq"]
            ELSE <<>>,
        calls |-> (IF cfg.gemini THEN BatchCalls("gemini", n, gemini_fails_at)
                   ELSE <<>>)
                  \o (IF groq_tried THEN BatchCalls("groq", n, groq_fails_at)
                      ELSE <<>>)]

\* _embed_text(text) of query.py and text_documents.py: the same chain for one
\* text
EmbedText(cfg, text, gemini_ok, groq_ok) ==
    LET gemini_done == cfg.gemini /\ gemini_ok
        groq_tried == ~gemini_done /\ cfg.groq
        groq_done == groq_tried /\ groq_ok
    IN [status |-> IF gemini_done \/ groq_done THEN "ok" ELSE "502",
        embedding |-> IF gemini_done THEN GeminiResponse(cfg, text)
                      ELSE IF groq_done THEN GroqEmbedding(text)
                      ELSE <<>>,
        calls |-> (IF cfg.gemini THEN <<Call("embed", "gemini", 1, gemini_ok)>>
                   ELSE <<>>)
                  \o (IF groq_tried THEN <<Call("embed", "groq", 1, groq_ok)>>
                      ELSE <<>>)]

\* SynthesizeAnswer, had an exception of Groq gone to the caller
SynthesizeAnswerPropagating(cfg, groq_ok, gemini_ok) ==
    IF cfg.groq
    THEN [status |-> IF groq_ok THEN "ok" ELSE "502",
          answer |-> IF groq_ok THEN "groq" ELSE "",
          calls |-> <<Call("generate", "groq", 1, groq_ok)>>]
    ELSE IF cfg.gemini
    THEN [status |-> IF gemini_ok THEN "ok" ELSE "502",
          answer |-> IF gemini_ok THEN "gemini" ELSE "",
          calls |-> <<Call("generate", "gemini", 1, gemini_ok)>>]
    ELSE [status |-> "502", answer |-> "", calls |-> <<>>]

\* SynthesizeAnswer, had Gemini been asked first, as the embedding chains do
SynthesizeAnswerGeminiFirst(cfg, groq_ok, gemini_ok) ==
    LET gemini_done == cfg.gemini /\ gemini_ok
        groq_tried == ~gemini_done /\ cfg.groq
        groq_done == groq_tried /\ groq_ok
    IN [status |-> IF gemini_done \/ groq_done THEN "ok" ELSE "502",
        answer |-> IF gemini_done THEN "gemini"
                   ELSE IF groq_done THEN "groq" ELSE "",
        calls |-> (IF cfg.gemini THEN <<Call("generate", "gemini", 1, gemini_ok)>>
                   ELSE <<>>)
                  \o (IF groq_tried THEN <<Call("generate", "groq", 1, groq_ok)>>
                      ELSE <<>>)]

\* _synthesize_answer: Groq when configured; on an exception, or without Groq,
\* Gemini when configured; else HTTP 502. The answer is named after the
\* provider that wrote it.
SynthesizeAnswer(cfg, groq_ok, gemini_ok) ==
    LET groq_done == cfg.groq /\ groq_ok
        gemini_tried == ~groq_done /\ cfg.gemini
        gemini_done == gemini_tried /\ gemini_ok
    IN [status |-> IF groq_done \/ gemini_done THEN "ok" ELSE "502",
        answer |-> IF groq_done THEN "groq"
                   ELSE IF gemini_done THEN "gemini" ELSE "",
        calls |-> (IF cfg.groq THEN <<Call("generate", "groq", 1, groq_ok)>>
                   ELSE <<>>)
                  \o (IF gemini_tried
                      THEN <<Call("generate", "gemini", 1, gemini_ok)>>
                      ELSE <<>>)]

(* ---- the requests of concurrent clients, run without PostgreSQL:  ---- *)
(* ---- a coroutine gives way to the others at an await that suspends ---- *)

\* the API keys configured, or not; the service answers with vectors of the
\* declared dimension
AiConfigs == [groq : BOOLEAN, gemini : BOOLEAN, dim : {VECTOR_DIM}]

\* ExecuteSuspends, had InMemoryDatabase.execute awaited something
ExecuteSuspendsAlways == TRUE

\* "await conn.execute(...)" on the in-memory connection: the coroutine
\* execute holds no await, so awaiting it never gives way to another request
ExecuteSuspends == FALSE

\* the uuid4 values the uploads in progress have still to draw
Reserved ==
    LET RECURSIVE Sum(_)
        Sum(rs) == IF rs = {} THEN 0
                   ELSE LET r == CHOOSE x \in rs : TRUE
                        IN (IF reqs[r].kind = "upload" /\ reqs[r].pc # "done"
                            THEN Len(reqs[r].texts) - Min(reqs[r].written,
                                                          Len(reqs[r].texts))
                            ELSE 0) + Sum(rs \ {r})
    IN Sum(Requests)

\* a request ended with a response
Respond(req, step, status, answer, sources) ==
    [req EXCEPT !.pc = "done",
                !.steps = IF step = "" THEN @ ELSE Append(@, step),
                !.response = [status |-> status, answer |-> answer,
                              sources |-> sources,
                              total_chunks |-> Len(sources)]]

\* the document ids in the order uuid4 hands them out
DocIdOrder == <<"d1", "d2">>

\* the ids no stored document and no upload in progress has
FreeIds(r) ==
    { i \in 1..Len(DocIdOrder) :
          /\ DocIdOrder[i] \notin DOMAIN memory_db.documents
          /\ \A o \in Requests \ {r} :
                 reqs[o].kind = "upload" /\ reqs[o].pc # "done"
                     => reqs[o].id # DocIdOrder[i] }

\* ingest_upload: document_id = str(uuid.uuid4()), an id never seen before
\* (the first free one), the text parsed and chunked
StartUpload(r) ==
    \E upload \in Uploads, document_id \in DocIds :
        /\ initialized
        /\ reqs[r].pc \in {"idle", "done"}
        /\ FreeIds(r) # {}
        /\ document_id = DocIdOrder[CHOOSE i \in FreeIds(r) :
                                        \A j \in FreeIds(r) : i <= j]
        /\ next_uuid + Reserved + Len(upload.chunks) <= MaxUuid
        /\ reqs' = [reqs EXCEPT ![r] =
               [IdleRequest EXCEPT !.kind = "upload", !.pc = "embed",
                                   !.id = document_id,
                                   !.texts = upload.chunks]]
        /\ UNCHANGED <<using_memory_db, initialized, memory_db, pg, next_uuid,
                       last, ai, chunking>>

\* ingest_upload: embeddings = await _embed_texts(chunks)
EmbedUpload(r) ==
    \E gemini_fails_at \in 0..Len(reqs[r].texts),
       groq_fails_at \in 0..Len(reqs[r].texts) :
        LET e == EmbedTexts(ai, reqs[r].texts, gemini_fails_at, groq_fails_at)
        IN /\ reqs[r].kind = "upload"
           /\ reqs[r].pc = "embed"
           /\ reqs' = [reqs EXCEPT ![r] =
                  IF e.status = "ok"
                  THEN [@ EXCEPT !.pc = "store",
                                 !.steps = Append(@, "embed"),
                                 !.embeddings = e.embeddings,
                                 !.providers = e.providers,
                                 !.calls = @ \o e.calls]
                  ELSE Respond([@ EXCEPT !.calls = @ \o e.calls],
                               "embed", e.status, "", <<>>)]
           /\ UNCHANGED <<using_memory_db, initialized, memory_db, pg,
                          next_uuid, last, ai, chunking>>

\* the file name and MIME type of the upload with these chunks
UploadOf(chunks) == CHOOSE u \in Uploads : u.chunks = chunks

\* ingest_upload: await _store_in_db(...), in-memory branch. The statements
\* run from the one after req.written on: all of them, or one when an
\* await of execute gives way
StoreUpload(r) ==
    LET req == reqs[r]
        n == Len(req.texts)
        u == UploadOf(req.texts)
        c == GetDbConnection(using_memory_db, FALSE)
    IN /\ req.kind = "upload"
       /\ req.pc = "store"
       /\ c.conn = "memory"
       /\ using_memory_db' = c.using
       /\ IF ~ExecuteSuspends
          THEN /\ memory_db' = MemStoreInDb(memory_db, req.id, u.filename,
                                            u.mime_type, req.texts,
                                            req.embeddings, next_uuid)
               /\ next_uuid' = next_uuid + n
               /\ reqs' = [reqs EXCEPT ![r] =
                      Respond([@ EXCEPT !.written = n], "store", "200", "", <<>>)]
          ELSE IF req.steps[Len(req.steps)] # "store"
          THEN /\ memory_db' = MemExecute(memory_db, INSERT_DOCUMENT,
                                          <<req.id, u.filename, u.mime_type, n>>)
               /\ next_uuid' = next_uuid
               /\ reqs' = [reqs EXCEPT ![r] =
                      IF n = 0
                      THEN Respond(@, "store", "200", "", <<>>)
                      ELSE [@ EXCEPT !.steps = Append(@, "store")]]
          ELSE /\ memory_db' = MemExecute(memory_db, INSERT_CHUNK,
                                   <<Uuid(next_uuid + 1), req.id, req.written,
                                     req.texts[req.written + 1],
                                     req.embeddings[req.written + 1]>>)
               /\ next_uuid' = next_uuid + 1
               /\ reqs' = [reqs EXCEPT ![r] =
                      IF req.written + 1 = n
                      THEN Respond([@ EXCEPT !.written = n], "", "200", "", <<>>)
                      ELSE [@ EXCEPT !.written = @ + 1]]
       /\ UNCHANGED <<initialized, pg, last, ai, chunking>>

\* delete_document(document_id): the request received
StartDelete(r) ==
    \E document_id \in DocIds :
        /\ initialized
        /\ reqs[r].pc \in {"idle", "done"}
        /\ reqs' = [reqs EXCEPT ![r] =
               [IdleRequest EXCEPT !.kind = "delete", !.pc = "delete",
                                   !.id = document_id]]
        /\ UNCHANGED <<using_memory_db, initialized, memory_db, pg, next_uuid,
                       last, ai, chunking>>

\* delete_document, in-memory branch: the two DELETE statements, or one of
\* them when an await of execute gives way
DeleteStep(r) ==
    LET req == reqs[r]
        c == GetDbConnection(using_memory_db, FALSE)
    IN /\ req.kind = "delete"
       /\ req.pc = "delete"
       /\ c.conn = "memory"
       /\ using_memory_db' = c.using
       /\ IF ~ExecuteSuspends
          THEN /\ memory_db' = MemDeleteInDb(memory_db, req.id)
               /\ reqs' = [reqs EXCEPT ![r] =
                      Respond(@, "delete", "200", "", <<>>)]
          ELSE IF req.steps = <<>>
          THEN /\ memory_db' = MemExecute(memory_db, DELETE_CHUNKS, <<req.id>>)
               /\ reqs' = [reqs EXCEPT ![r] =
                      [@ EXCEPT !.steps = Append(@, "delete")]]
          ELSE /\ memory_db' = MemExecute(memory_db, DELETE_DOCUMENT, <<req.id>>)
               /\ reqs' = [reqs EXCEPT ![r] = Respond(@, "", "200", "", <<>>)]
       /\ UNCHANGED <<initialized, pg, next_uuid, last, ai, chunking>>

\* query_ask: the request received (question, max_chunks >= 1)
StartAsk(r) ==
    \E question \in Questions, k \in 1..MaxK :
        /\ initialized
        /\ reqs[r].pc \in {"idle", "done"}
        /\ reqs' = [reqs EXCEPT ![r] =
               [IdleRequest EXCEPT !.kind = "ask", !.pc = "embed",
                                   !.texts = <<question>>, !.k = k]]
        /\ UNCHANGED <<using_memory_db, initialized, memory_db, pg, next_uuid,
                       last, ai, chunking>>

\* AfterEmbed, had query_ask gone on without a question embedding
AfterEmbedAlwaysSearch(status) == "search"

\* query_ask after "query_embedding = await _embed_text(body.question)": the
\* HTTPException of the chain is re-raised, else the search follows
AfterEmbed(status) == IF status = "ok" THEN "search" ELSE "done"

\* query_ask: query_embedding = await _embed_text(body.question)
EmbedAsk(r) ==
    \E gemini_ok \in BOOLEAN, groq_ok \in BOOLEAN :
        LET e == EmbedText(ai, reqs[r].texts[1], gemini_ok, groq_ok)
        IN /\ reqs[r].kind = "ask"
           /\ reqs[r].pc = "embed"
           /\ reqs' = [reqs EXCEPT ![r] =
                  IF AfterEmbed(e.status) = "search"
                  THEN [@ EXCEPT !.pc = "search",
                                 !.steps = Append(@, "embed"),
                                 !.embeddings = IF e.status = "ok"
                                                THEN <<e.embedding>> ELSE <<>>,
                                 !.calls = @ \o e.calls]
                  ELSE Respond([@ EXCEPT !.calls = @ \o e.calls],
                               "embed", e.status, "", <<>>)]
           /\ UNCHANGED <<using_memory_db, initialized, memory_db, pg,
                          next_uuid, last, ai, chunking>>

\* NoRows, had query_ask not looked at the rows
NoRowsIgnored(rows) == FALSE

\* query_ask: "if not rows"
NoRows(rows) == Len(rows) = 0

\* another request than r has embedded the chunks of an upload and not yet
\* stored them
InProgress(r) ==
    \E o \in Requests \ {r} : reqs[o].kind = "upload" /\ reqs[o].pc = "store"

\* query_ask: get_db_connection and conn.fetch of the similarity SELECT, then
\* the canned answer when there are no rows
SearchAsk(r) ==
    LET req == reqs[r]
        c == GetDbConnection(using_memory_db, FALSE)
        q == IF req.embeddings = <<>> THEN <<>> ELSE req.embeddings[1]
        rows == MemFetch(memory_db, SELECT_SIMILAR, <<q, req.k>>)
    IN /\ req.kind = "ask"
       /\ req.pc = "search"
       /\ c.conn = "memory"
       /\ using_memory_db' = c.using
       /\ reqs' = [reqs EXCEPT ![r] =
              IF NoRows(rows)
              THEN Respond([@ EXCEPT !.rows = rows, !.during = InProgress(r)],
                           "search", "200", "No relevant documents found", <<>>)
              ELSE [@ EXCEPT !.pc = "synthesize",
                             !.steps = Append(@, "search"),
                             !.rows = rows,
                             !.during = InProgress(r)]]
       /\ UNCHANGED <<initialized, memory_db, pg, next_uuid, last, ai, chunking>>

\* query_ask: answer = await _synthesize_answer(question, sources, max_tokens)
SynthesizeAsk(r) ==
    \E groq_ok \in BOOLEAN, gemini_ok \in BOOLEAN :
        LET a == SynthesizeAnswer(ai, groq_ok, gemini_ok)
        IN /\ reqs[r].kind = "ask"
           /\ reqs[r].pc = "synthesize"
           /\ reqs' = [reqs EXCEPT ![r] =
                  Respond([@ EXCEPT !.calls = @ \o a.calls], "synthesize",
                          IF a.status = "ok" THEN "200" ELSE a.status,
                          a.answer,
                          IF a.status = "ok" THEN Sources(reqs[r].rows)
                          ELSE <<>>)]
           /\ UNCHANGED <<using_memory_db, initialized, memory_db, pg,
                          next_uuid, last, ai, chunking>>

InitRequests ==
    /\ InitStore
    /\ ai \in AiConfigs
    /\ chunking = NoChunking

UploadRequest == \E r \in Writers : StartUpload(r) \/ EmbedUpload(r) \/ StoreUpload(r)

AskRequest ==
    \E r \in Askers :
        StartAsk(r) \/ EmbedAsk(r) \/ SearchAsk(r) \/ SynthesizeAsk(r)

DeleteRequest == \E r \in Writers : StartDelete(r) \/ DeleteStep(r)

NextRequests ==
    \/ MemInitDatabase
    \/ UploadRequest
    \/ AskRequest
    \/ DeleteRequest

SpecRequests == InitRequests /\ [][NextRequests]_vars

(* ---- the uploads and deletes of one client, run without PostgreSQL, ---- *)
(* ---- the embedding service answering with vectors of any length     ---- *)

IngestConfigs == [groq : BOOLEAN, gemini : BOOLEAN, dim : GeminiLengths]

InitIngest ==
    /\ InitStore
    /\ ai \in IngestConfigs
    /\ chunking = NoChunking

NextIngest ==
    \/ MemInitDatabase
    \/ UploadRequest
    \/ DeleteRequest

SpecIngest == InitIngest /\ [][NextIngest]_vars

(* ---- _chunk_text(text, chunk_size, overlap), statement by statement ---- *)

\* the calls: every short text with every small chunk_size and overlap, and
\* the long texts with a chunk_size above SENTENCE_LOOKBACK
ChunkCalls ==
    { [NoChunking EXCEPT !.pc = "call", !.text = c[1],
                         !.chunk_size = c[2][1], !.overlap = c[2][2]] :
          c \in (ShortTexts \X SmallParams) \cup (LongTexts \X LongParams) }

\* ingest.py:96-100: return [text], or enter the loop with start = 0
ChunkTextCall ==
    /\ chunking.pc = "call"
    /\ chunking' =
           IF FitsOneChunk(chunking.text, chunking.chunk_size)
           THEN [chunking EXCEPT !.pc = "returned", !.result = <<chunking.text>>]
           ELSE [chunking EXCEPT !.pc = "loop", !.start = 0, !.chunks = <<>>]
    /\ UNCHANGED <<using_memory_db, initialized, memory_db, pg, next_uuid, last,
                   ai, reqs>>

\* ingest.py:102-120: one iteration of "while start < len(text)"
ChunkTextIteration ==
    LET c == CutEnd(chunking.text, chunking.start, chunking.chunk_size)
    IN /\ chunking.pc = "loop"
       /\ chunking.start < Len(chunking.text)
       /\ Len(chunking.windows) < MaxIterations
       /\ chunking' =
              IF c.raised THEN [chunking EXCEPT !.pc = "IndexError"]
              ELSE [chunking EXCEPT
                       !.windows = Append(@, [start |-> chunking.start,
                                              end |-> c.end, how |-> c.how]),
                       !.chunks = Append(@, Strip(PySlice(chunking.text,
                                                          chunking.start, c.end))),
                       !.start = c.end - chunking.overlap]
       /\ UNCHANGED <<using_memory_db, initialized, memory_db, pg, next_uuid,
                      last, ai, reqs>>

\* ingest.py:122: the loop left, the chunks that are not empty returned
ChunkTextReturn ==
    /\ chunking.pc = "loop"
    /\ ~(chunking.start < Len(chunking.text))
    /\ chunking' = [chunking EXCEPT !.pc = "returned",
                                    !.result = NonEmpty(chunking.chunks)]
    /\ UNCHANGED <<using_memory_db, initialized, memory_db, pg, next_uuid, last,
                   ai, reqs>>

InitChunk ==
    /\ InitStore
    /\ ai = [groq |-> TRUE, gemini |-> TRUE, dim |-> VECTOR_DIM]
    /\ chunking \in ChunkCalls

NextChunk ==
    \/ ChunkTextCall
    \/ ChunkTextIteration
    \/ ChunkTextReturn

SpecChunk == InitChunk /\ [][NextChunk]_vars

(* ---- add_text_documents (text_documents.py): a batch of documents ---- *)

\* the titles of the documents of a batch
Titles == {"a"}

\* f"{doc.title}.txt"
TxtName(title) == IF title = "a" THEN "a.txt" ELSE "b.txt"

\* TextDocument: a title and a content, the content given by the chunks
\* _chunk_text makes of it
TextDocuments ==
    { [title |-> t, chunks |-> SubSeq(ChunkText, 1, n)] :
          t \in Titles, n \in 0..MaxChunks }

\* AddDocumentsRequest.documents
Batches == UNION { [1..n -> TextDocuments] : n \in 0..MaxBatch }

\* what can happen while a document is processed: each embedding provider
\* raises on the first text or on none (0), and asyncpg.connect succeeds or
\* fails
DocumentEvents(doc) ==
    [gemini_fails_at : 0..Min(1, Len(doc.chunks)),
     groq_fails_at : 0..Min(1, Len(doc.chunks)),
     connect_ok : BOOLEAN]

\* the events of a batch, document by document
BatchEvents(documents) ==
    { events \in [1..Len(documents) ->
                     UNION { DocumentEvents(doc) : doc \in TextDocuments }] :
          \A i \in 1..Len(documents) : events[i] \in DocumentEvents(documents[i]) }

\* the ids uuid4 has not handed out to a stored document
UnusedIds(mem, durable) ==
    { i \in 1..Len(DocIdOrder) :
          /\ DocIdOrder[i] \notin DOMAIN mem.documents
          /\ DocIdOrder[i] \notin DOMAIN durable.documents }

\* document_id = str(uuid.uuid4())
FreshId(mem, durable) ==
    DocIdOrder[CHOOSE i \in UnusedIds(mem, durable) :
                   \A j \in UnusedIds(mem, durable) : i <= j]

\* sum(len(doc.chunks)) over the batch
RECURSIVE BatchChunks(_)
BatchChunks(documents) ==
    IF documents = <<>> THEN 0
    ELSE Len(documents[1].chunks) + BatchChunks(Tail(documents))

\* the state add_text_documents works on before its loop
BatchStart ==
    [using |-> using_memory_db, memory_db |-> memory_db, pg |-> pg,
     next_uuid |-> next_uuid, ids |-> <<>>, results |-> <<>>,
     total_chunks |-> 0, failed_at |-> 0, conn |-> "none",
     attempted |-> FALSE, opened |-> 0, closed |-> 0]

\* AddDocumentsLoop, had the loop caught the exception of a document and gone
\* on with the next one
RECURSIVE AddDocumentsLoopSkipping(_, _, _, _, _)
AddDocumentsLoopSkipping(s, cfg, documents, events, i) ==
    IF i > Len(documents) THEN s
    ELSE
      LET doc == documents[i]
          document_id == FreshId(s.memory_db, s.pg)
          e == EmbedTexts(cfg, doc.chunks, events[i].gemini_fails_at,
                          events[i].groq_fails_at)
          c == GetDbConnection(s.using, events[i].connect_ok)
          t == PgStoreInDb(s.pg, document_id, TxtName(doc.title), "text/plain",
                           doc.chunks, e.embeddings, s.next_uuid)
          drawn == [s EXCEPT !.ids = Append(@, document_id)]
          connected == [drawn EXCEPT !.using = c.using, !.conn = c.conn,
                                     !.attempted = @ \/ c.attempted,
                                     !.opened = @ + Opened(c.conn)]
          stored == [connected EXCEPT
                        !.next_uuid = @ + Len(doc.chunks),
                        !.results = Append(@, [document_id |-> document_id,
                                               title |-> doc.title,
                                               chunks_created |-> Len(doc.chunks)]),
                        !.total_chunks = @ + Len(doc.chunks)]
      IN IF e.status # "ok"
            \/ LengthsDiffer(Len(doc.chunks), Len(e.embeddings))
         THEN AddDocumentsLoopSkipping([drawn EXCEPT !.failed_at = i],
                                       cfg, documents, events, i + 1)
         ELSE IF c.raised
         THEN AddDocumentsLoopSkipping([connected EXCEPT !.failed_at = i],
                                       cfg, documents, events, i + 1)
         ELSE IF c.conn = "memory"
         THEN AddDocumentsLoopSkipping(
                  [stored EXCEPT !.memory_db =
                      MemStoreInDb(@, document_id, TxtName(doc.title),
                                   "text/plain", doc.chunks, e.embeddings,
                                   s.next_uuid)],
                  cfg, documents, events, i + 1)
         ELSE IF t.ok
         THEN AddDocumentsLoopSkipping(
                  [stored EXCEPT !.pg = t.db,
                                 !.closed = @ + Closed(c.conn, FALSE)],
                  cfg, documents, events, i + 1)
         ELSE AddDocumentsLoopSkipping(
                  [connected EXCEPT !.failed_at = i, !.pg = t.db,
                                    !.closed = @ + Closed(c.conn, TRUE)],
                  cfg, documents, events, i + 1)

\* add_text_documents: "for doc in body.documents", from document i on, each
\* document chunked, embedded and stored by its own call of _store_in_db; the
\* first exception leaves the loop (failed_at: the document that raised it)
RECURSIVE AddDocumentsLoop(_, _, _, _, _)
AddDocumentsLoop(s, cfg, documents, events, i) ==
    IF i > Len(documents) THEN s
    ELSE
      LET doc == documents[i]
          document_id == FreshId(s.memory_db, s.pg)
          e == EmbedTexts(cfg, doc.chunks, events[i].gemini_fails_at,
                          events[i].groq_fails_at)
          c == GetDbConnection(s.using, events[i].connect_ok)
          t == PgStoreInDb(s.pg, document_id, TxtName(doc.title), "text/plain",
                           doc.chunks, e.embeddings, s.next_uuid)
          drawn == [s EXCEPT !.ids = Append(@, document_id)]
          connected == [drawn EXCEPT !.using = c.using, !.conn = c.conn,
                                     !.attempted = @ \/ c.attempted,
                                     !.opened = @ + Opened(c.conn)]
          stored == [connected EXCEPT
                        !.next_uuid = @ + Len(doc.chunks),
                        !.results = Append(@, [document_id |-> document_id,
                                               title |-> doc.title,
                                               chunks_created |-> Len(doc.chunks)]),
                        !.total_chunks = @ + Len(doc.chunks)]
      IN IF e.status # "ok"
            \/ LengthsDiffer(Len(doc.chunks), Len(e.embeddings))
         THEN [drawn EXCEPT !.failed_at = i]
         ELSE IF c.raised
         THEN [connected EXCEPT !.failed_at = i]
         ELSE IF c.conn = "memory"
         THEN AddDocumentsLoop(
                  [stored EXCEPT !.memory_db =
                      MemStoreInDb(@, document_id, TxtName(doc.title),
                                   "text/plain", doc.chunks, e.embeddings,
                                   s.next_uuid)],
                  cfg, documents, events, i + 1)
         ELSE IF t.ok
         THEN AddDocumentsLoop(
                  [stored EXCEPT !.pg = t.db,
                                 !.closed = @ + Closed(c.conn, FALSE)],
                  cfg, documents, events, i + 1)
         ELSE [connected EXCEPT !.failed_at = i, !.pg = t.db,
                                !.closed = @ + Closed(c.conn, TRUE)]

\* AddDocumentsResponse(success, total_documents, total_chunks, documents) or
\* the HTTPException raised, with what the loop did: the documents given,
\* the ids drawn and the document on which the loop failed (0: none)
BatchReport(status, documents, s, response) ==
    [op |-> "batch", id |-> "", status |-> status, conn |-> s.conn,
     attempted |-> s.attempted, q |-> <<>>, k |-> 0, rows |-> <<>>,
     mismatch |-> FALSE, outcome |-> "", opened |-> s.opened,
     closed |-> s.closed, documents |-> documents, ids |-> s.ids,
     failed_at |-> s.failed_at, response |-> response]

\* POST /add: add_text_documents(body)
AddTextDocuments ==
    \E documents \in Batches :
      /\ initialized
      /\ Cardinality(UnusedIds(memory_db, pg)) >= Len(documents)
      /\ next_uuid + BatchChunks(documents) <= MaxUuid
      /\ \E events \in BatchEvents(documents) :
        LET s == AddDocumentsLoop(BatchStart, ai, documents, events, 1)
        IN /\ IF ~ai.groq /\ ~ai.gemini
              THEN /\ last' = BatchReport("502", documents, BatchStart,
                                          [detail |-> "No AI service available"])
                   /\ UNCHANGED <<using_memory_db, memory_db, pg, next_uuid>>
              ELSE IF documents = <<>>
              THEN /\ last' = BatchReport("400", documents, BatchStart,
                                          [detail |-> "No documents provided"])
                   /\ UNCHANGED <<using_memory_db, memory_db, pg, next_uuid>>
              ELSE /\ using_memory_db' = s.using
                   /\ memory_db' = s.memory_db
                   /\ pg' = s.pg
                   /\ next_uuid' = s.next_uuid
                   /\ last' = IF s.failed_at = 0
                              THEN BatchReport("200", documents, s,
                                       [success |-> TRUE,
                                        total_documents |-> Len(documents),
                                        total_chunks |-> s.total_chunks,
                                        documents |-> s.results])
                              ELSE BatchReport("500", documents, s,
                                       [detail |-> "Error adding documents"])
           /\ UNCHANGED <<initialized, ai, reqs, chunking>>

InitBatch ==
    /\ InitStore
    /\ ai \in IngestConfigs
    /\ chunking = NoChunking

NextBatch ==
    \/ InitDatabase
    \/ AddTextDocuments

SpecBatch == InitBatch /\ [][NextBatch]_vars

(* ------------------------------- claims -------------------------------- *)

\* the tables of the backend the requests are served by
SelectedDocuments ==
    IF using_memory_db THEN memory_db.documents ELSE pg.documents

SelectedChunks ==
    IF using_memory_db THEN memory_db.chunks ELSE pg.document_chunks

\* the rows of a chunk table whose document_id is doc_id
ChunksOf(table, doc_id) == { i \in 1..Len(table) : table[i].document_id = doc_id }

\* the chunk ids stored in either backend
StoredIds ==
    { memory_db.chunks[i].id : i \in 1..Len(memory_db.chunks) }
        \cup { pg.document_chunks[i].id : i \in 1..Len(pg.document_chunks) }

\* a chunk that was stored has been deleted
SomeChunkDeleted == Cardinality(StoredIds) < next_uuid

\* C1: once the in-memory backend is selected the selection never reverts,
\* and no later call (get_db_connection in a request, init_database) attempts
\* a durable connection.
C1_BackendLatch ==
    [][using_memory_db => (using_memory_db' /\ ~last'.attempted)]_vars

\* C1, its case: the durable backend was used, then lost, and a request ran
\* on the in-memory backend without a durable attempt
C1_Witness ==
    /\ using_memory_db
    /\ DOMAIN pg.documents # {}
    /\ last.op = "insert" /\ last.status = "ok"
    /\ last.conn = "memory" /\ ~last.attempted

\* C2: in every reachable state, on either backend, every stored chunk's
\* document_id is the id of a stored document.
C2_NoOrphanChunk ==
    /\ \A i \in 1..Len(memory_db.chunks) :
           memory_db.chunks[i].document_id \in DOMAIN memory_db.documents
    /\ \A i \in 1..Len(pg.document_chunks) :
           pg.document_chunks[i].document_id \in DOMAIN pg.documents

\* C2, its case: a delete has run on the in-memory backend and removed
\* chunks, and chunks are still stored there and in PostgreSQL
C2_Witness ==
    /\ last.op = "delete" /\ last.conn = "memory"
    /\ Len(memory_db.chunks) > 0
    /\ Len(pg.document_chunks) > 0
    /\ SomeChunkDeleted

\* C3: each stored document's total_chunks equals the number of chunks stored
\* with its document_id (document ids may repeat between insert_document calls).
C3_TotalChunksIsChunkCount ==
    /\ \A d \in DOMAIN memory_db.documents :
           memory_db.documents[d].total_chunks
               = Cardinality(ChunksOf(memory_db.chunks, d))
    /\ \A d \in DOMAIN pg.documents :
           pg.documents[d].total_chunks
               = Cardinality(ChunksOf(pg.document_chunks, d))

\* C4: a second insert_document with an id that already has a document row
\* leaves that row as the first call wrote it (filename, mime_type,
\* total_chunks) and is not an error, on either backend.
C4_DuplicateInsertKeepsRow ==
    [][\A d \in DocIds :
          (last'.op = "insert" /\ last'.id = d /\ last'.status # "ValueError") =>
              /\ last'.status = "ok"
              /\ d \in DOMAIN memory_db.documents =>
                     /\ d \in DOMAIN memory_db'.documents
                     /\ memory_db'.documents[d] = memory_db.documents[d]
              /\ d \in DOMAIN pg.documents =>
                     /\ d \in DOMAIN pg'.documents
                     /\ pg'.documents[d] = pg.documents[d]]_vars

\* no document row, chunk or embedding of doc_id in the backend the requests
\* are served by
Absent(doc_id) ==
    /\ doc_id \notin DOMAIN SelectedDocuments
    /\ ChunksOf(SelectedChunks, doc_id) = {}
    /\ using_memory_db =>
           DOMAIN memory_db.embeddings
               \subseteq { memory_db.chunks[i].id : i \in 1..Len(memory_db.chunks) }

\* no search on the backend the requests are served by returns a source of doc_id
NeverReturned(doc_id) ==
    \A q \in QueryVectors, k \in 1..MaxK :
        \A rows \in IF using_memory_db
                    THEN {MemFetch(memory_db, SELECT_SIMILAR, <<q, k>>)}
                    ELSE PgFetchSimilar(pg, q, k) :
            \A i \in 1..Len(rows) : rows[i].document_id # doc_id

\* C5: after delete_document(id) completes, the store holds no document row,
\* chunk or embedding of id, and stays so until id is inserted again; while
\* it is so, no search returns a source of id.
C5_DeletedStaysAbsent ==
    /\ [][\A d \in DocIds :
            (\/ last'.op = "delete" /\ last'.id = d /\ last'.status = "ok"
             \/ Absent(d) /\ ~(last'.op = "insert" /\ last'.id = d))
            => Absent(d)']_vars
    /\ [](\A d \in DocIds : Absent(d) => NeverReturned(d))

\* C5, its case: a delete has completed on the in-memory backend, chunks
\* have been removed and chunks of another document are still stored
C5_Witness ==
    /\ last.op = "delete" /\ last.status = "ok" /\ last.conn = "memory"
    /\ Absent(last.id) /\ NeverReturned(last.id)
    /\ SomeChunkDeleted
    /\ Len(memory_db.chunks) > 0

\* the rows of a chunk table that are not of doc_id, in table order
OtherChunks(table, doc_id) == SelectRows(table, doc_id, FALSE)

\* C6: delete_document(id) reports success and changes only the document id
\* and its chunks: every other document row, chunk and embedding is as before,
\* and a backend that has no document id is unchanged.
C6_DeleteFrame ==
    [][\A d \in DocIds :
          (last'.op = "delete" /\ last'.id = d) =>
              /\ last'.status = "ok"
              /\ DOMAIN memory_db'.documents \subseteq DOMAIN memory_db.documents
              /\ \A o \in DOMAIN memory_db.documents \ {d} :
                     /\ o \in DOMAIN memory_db'.documents
                     /\ memory_db'.documents[o] = memory_db.documents[o]
              /\ OtherChunks(memory_db'.chunks, d) = OtherChunks(memory_db.chunks, d)
              /\ Len(memory_db'.chunks) <= Len(memory_db.chunks)
              /\ \A i \in 1..Len(memory_db.chunks) :
                     memory_db.chunks[i].document_id # d =>
                         /\ memory_db.chunks[i].id \in DOMAIN memory_db'.embeddings
                         /\ memory_db'.embeddings[memory_db.chunks[i].id]
                                = memory_db.embeddings[memory_db.chunks[i].id]
              /\ DOMAIN pg'.documents \subseteq DOMAIN pg.documents
              /\ \A o \in DOMAIN pg.documents \ {d} :
                     /\ o \in DOMAIN pg'.documents
                     /\ pg'.documents[o] = pg.documents[o]
              /\ OtherChunks(pg'.document_chunks, d) = OtherChunks(pg.document_chunks, d)
              /\ Len(pg'.document_chunks) <= Len(pg.document_chunks)
              /\ d \notin DOMAIN memory_db.documents => memory_db' = memory_db
              /\ d \notin DOMAIN pg.documents => pg' = pg]_vars

\* C6, its case: a delete has reported success with no chunk ever removed
\* (its id had no chunks) while another document and its chunks are stored
C6_Witness ==
    /\ last.op = "delete" /\ last.status = "ok"
    /\ last.id \notin DOMAIN SelectedDocuments
    /\ \E o \in DOMAIN SelectedDocuments : ChunksOf(SelectedChunks, o) # {}
    /\ ~SomeChunkDeleted

\* C7: list_documents returns without error one entry for every document
\* stored in the backend it runs on.
C7_ListReturnsEveryDocument ==
    last.op = "list" =>
        /\ last.status = "ok"
        /\ { last.rows[i].id : i \in 1..Len(last.rows) } = DOMAIN SelectedDocuments
        /\ Len(last.rows) = Cardinality(DOMAIN SelectedDocuments)

\* C8: search(q, k) returns, without error, exactly min(k, number of stored
\* chunks) rows; on an empty store the empty list.
C8_SearchReturnsMinKRows ==
    last.op = "search" =>
        /\ last.status = "ok"
        /\ Len(last.rows) = Min(last.k, Len(SelectedChunks))
        /\ Len(last.rows) <= last.k
        /\ SelectedChunks = <<>> => last.rows = <<>>

\* C8, its case: a search has run with more chunks stored than its limit
C8_Witness ==
    /\ last.op = "search" /\ last.conn = "memory"
    /\ Len(memory_db.chunks) > last.k
    /\ Len(last.rows) = last.k

\* the place of stored chunk i in a search for q: the number of stored chunks
\* that are nearer to q, or as near and stored before i
Rank(q, i) ==
    LET all == MemResultsWithDistance(memory_db, q)
    IN Cardinality({ j \in 1..Len(all) :
           \/ DistLess(all[j].distance, all[i].distance)
           \/ DistEq(all[j].distance, all[i].distance) /\ j < i })

\* C9: the rows of a search on the in-memory backend are in ascending order of
\* distance, rows of equal distance in the order in which they were stored,
\* and they are the k nearest chunks of the store.
C9_SearchSortedStableNearest ==
    (last.op = "search" /\ last.conn = "memory") =>
        LET all == MemResultsWithDistance(memory_db, last.q)
        IN /\ \A i, j \in 1..Len(last.rows) :
                  i < j => DistLeq(last.rows[i].distance, last.rows[j].distance)
           /\ \A pos \in 1..Len(last.rows) :
                  \E i \in 1..Len(all) :
                      Rank(last.q, i) = pos - 1 /\ last.rows[pos] = all[i]

\* C9, its case: three chunks stored, the first stored farther from the
\* question than the last, two of them as far as one another, and a search
\* that returns two rows
C9_Witness ==
    /\ last.op = "search" /\ last.conn = "memory" /\ last.k = 2
    /\ Len(memory_db.chunks) = 3
    /\ LET all == MemResultsWithDistance(memory_db, last.q)
       IN /\ DistLess(all[3].distance, all[1].distance)
          /\ DistEq(all[1].distance, all[2].distance)
          /\ all[1] # all[2]

\* the stored chunks a returned row can be of: those of its document_id,
\* chunk_index and content
ChunksOfRow(r) ==
    { i \in 1..Len(memory_db.chunks) :
        /\ memory_db.chunks[i].document_id = r.document_id
        /\ memory_db.chunks[i].chunk_index = r.chunk_index
        /\ memory_db.chunks[i].content = r.content }

HasEmbedding(i) == MemEmbedding(memory_db, memory_db.chunks[i].id) # <<>>

\* C10: in the rows of a search, a chunk with no stored embedding comes after
\* every chunk that has an embedding.
C10_NoEmbeddingSortsLast ==
    (last.op = "search" /\ last.conn = "memory") =>
        \A i, j \in 1..Len(last.rows) :
            (/\ \A c \in ChunksOfRow(last.rows[i]) : ~HasEmbedding(c)
             /\ \A c \in ChunksOfRow(last.rows[j]) : HasEmbedding(c))
            => j < i

\* the distance 0: cosine similarity 1
DistanceZero == [num |-> 1, den |-> 1]

\* C11: after insert_document has stored a chunk with embedding e, a search
\* with e as the query (and a limit that covers the whole store) returns that
\* chunk with distance 0, for every embedding insert_document accepts.
C11_StoredEmbeddingAtDistanceZero ==
    (last.op = "search" /\ last.status = "ok" /\ last.conn = "memory"
        /\ last.k >= Len(memory_db.chunks))
    => \A i \in 1..Len(memory_db.chunks) :
           (/\ memory_db.chunks[i].id \in DOMAIN memory_db.embeddings
            /\ memory_db.embeddings[memory_db.chunks[i].id] = last.q)
           => \E j \in 1..Len(last.rows) :
                  /\ Sources(last.rows)[j] =
                         [content |-> memory_db.chunks[i].content,
                          chunk_index |-> memory_db.chunks[i].chunk_index,
                          document_id |-> memory_db.chunks[i].document_id]
                  /\ DistEq(last.rows[j].distance, DistanceZero)

\* the chunks of the in-memory store as rows of the PostgreSQL table
\* document_chunks, in the order in which they were stored
PgImage(db) ==
    [documents |-> db.documents,
     document_chunks |->
        [i \in 1..Len(db.chunks) |->
            [id |-> db.chunks[i].id, document_id |-> db.chunks[i].document_id,
             chunk_index |-> db.chunks[i].chunk_index,
             content |-> db.chunks[i].content,
             embedding |-> MemEmbedding(db, db.chunks[i].id)]]]

\* C12: for the same stored chunks, the same query embedding and the same k,
\* the sources returned by the in-memory search are sources the PostgreSQL
\* statement can return (whatever order it gives to rows of equal distance).
C12_BackendsRankAlike ==
    (last.op = "search" /\ last.status = "ok" /\ last.conn = "memory"
        /\ PgVectorOk(last.q)
        /\ \A r \in Range(PgImage(memory_db).document_chunks) :
               PgVectorOk(r.embedding))
    => Sources(last.rows) \in
           { Sources(rows) :
                 rows \in PgFetchSimilar(PgImage(memory_db), last.q, last.k) }

\* C14: a call of insert_document whose chunk list and embedding list differ
\* in length ends with the validation error, changes neither store and
\* acquires no backend connection (none is attempted, the selection is kept).
C14_LengthMismatchBeforeAnyWrite ==
    [][(last'.op = "insert" /\ last'.mismatch)
       => (/\ last'.status = "ValueError"
           /\ memory_db' = memory_db
           /\ pg' = pg
           /\ next_uuid' = next_uuid
           /\ using_memory_db' = using_memory_db
           /\ last'.conn = "none"
           /\ ~last'.attempted)]_vars

\* a mismatched call refused while documents are stored on both backends
C14_Witness ==
    /\ last.op = "insert"
    /\ last.status = "ValueError"
    /\ last.mismatch
    /\ Len(memory_db.chunks) > 0
    /\ Len(pg.document_chunks) > 0

\* C15: when the durable connection attempt of a request fails, the request is
\* given the in-memory backend by the same call and is carried out on it: the
\* call reports no error, and the failed connection is never its outcome.
C15_ConnectionFailureFallsBack ==
    [][(last'.op \in {"insert", "delete", "search", "list"}
            /\ last'.attempted /\ last'.conn # "pg")
       => (/\ last'.conn = "memory"
           /\ last'.status = "ok"
           /\ using_memory_db'
           /\ pg' = pg
           /\ (last'.op = "insert" =>
                   /\ last'.id \in DOMAIN memory_db'.documents
                   /\ Len(memory_db'.chunks) = Len(memory_db.chunks)
                          + memory_db'.documents[last'.id].total_chunks)
           /\ (last'.op = "delete" =>
                   memory_db' = MemDeleteInDb(memory_db, last'.id))
           /\ (last'.op = "search" =>
                   last'.rows = MemFetch(memory_db, SELECT_SIMILAR,
                                         <<last'.q, last'.k>>)))]_vars

\* an insert whose connection attempt failed after PostgreSQL had been in use,
\* carried out on the in-memory backend
C15_Witness ==
    /\ last.op = "insert"
    /\ last.attempted
    /\ last.conn = "memory"
    /\ last.status = "ok"
    /\ Len(pg.document_chunks) > 0
    /\ last.id \in DOMAIN memory_db.documents
    /\ Len(memory_db.chunks) > 0
    /\ Len(memory_db.chunks) = memory_db.documents[last.id].total_chunks

\* every document row of the store has all its chunks, and every chunk has its
\* document row and its embedding
StoreComplete(db) ==
    /\ \A d \in DOMAIN db.documents :
           Cardinality(ChunksOf(db.chunks, d)) = db.documents[d].total_chunks
    /\ \A i \in 1..Len(db.chunks) :
           /\ db.chunks[i].document_id \in DOMAIN db.documents
           /\ db.chunks[i].id \in DOMAIN db.embeddings

\* C13: on the in-memory backend the store read by the search of a request is
\* never one that a concurrent insert_document or delete_document has written
\* in part: every document is there with all its chunks or not at all, and
\* the rows returned are chunks of documents of the store.
C13_SearchSeesNoPartialWrite ==
    [][\A r \in Requests :
           (reqs[r].pc = "search" /\ reqs'[r].pc # "search")
           => (/\ StoreComplete(memory_db)
               /\ \A i \in 1..Len(reqs'[r].rows) :
                      reqs'[r].rows[i].document_id \in DOMAIN memory_db.documents
               /\ \A o \in Requests \ {r} :
                      (reqs[o].kind = "upload" /\ reqs[o].pc # "done")
                      => ChunksOf(memory_db.chunks, reqs[o].id) = {})]_vars

\* a search that returned rows while an upload of two chunks, embedded, had
\* not yet been stored
C13_Witness ==
    \E r \in Askers, w \in Writers :
        /\ reqs[r].steps = <<"embed", "search">>
        /\ Len(reqs[r].rows) > 0
        /\ reqs[r].during
        /\ reqs[w].kind = "upload"
        /\ Len(reqs[w].texts) = 2

\* the attempts of a request within one chain, in the order they were made
CallsOf(req, chain) == SelectSeq(req.calls, LAMBDA c : c.chain = chain)

\* a step is in the steps a request has carried out
Did(req, step) == \E i \in 1..Len(req.steps) : req.steps[i] = step

\* C16: whenever the search of an ask returns no chunk, the request ends there
\* with the canned answer, no sources and total_chunks = 0, and no generation
\* provider is ever called for it.
C16_NoResultsShortCircuit ==
    \A r \in Askers :
        (reqs[r].kind = "ask" /\ Did(reqs[r], "search") /\ reqs[r].rows = <<>>)
        => (/\ reqs[r].pc = "done"
            /\ reqs[r].response =
                   [status |-> "200", answer |-> "No relevant documents found",
                    sources |-> <<>>, total_chunks |-> 0]
            /\ CallsOf(reqs[r], "generate") = <<>>
            /\ ~Did(reqs[r], "synthesize"))

\* an ask answered from an empty knowledge base
C16_Witness ==
    \E r \in Askers :
        /\ reqs[r].kind = "ask"
        /\ reqs[r].steps = <<"embed", "search">>
        /\ reqs[r].rows = <<>>
        /\ reqs[r].pc = "done"
        /\ memory_db.documents = <<>>
        /\ memory_db.chunks = <<>>

\* s is a prefix of t
IsPrefix(s, t) == Len(s) <= Len(t) /\ s = SubSeq(t, 1, Len(s))

\* C17: the steps of one ask run in the order embed, search, synthesize; the
\* search is issued only with a question embedding that a provider returned,
\* and synthesize only after the search has returned rows, whatever the other
\* requests do meanwhile.
C17_AskStepsInOrder ==
    \A r \in Askers :
        reqs[r].kind = "ask"
        => (/\ IsPrefix(reqs[r].steps, <<"embed", "search", "synthesize">>)
            /\ (reqs[r].pc = "search" \/ Did(reqs[r], "search"))
                   => (/\ Did(reqs[r], "embed")
                       /\ Len(reqs[r].embeddings) = 1
                       /\ CallsOf(reqs[r], "embed") # <<>>
                       /\ CallsOf(reqs[r], "embed")
                              [Len(CallsOf(reqs[r], "embed"))].ok)
            /\ (reqs[r].pc = "synthesize" \/ Did(reqs[r], "synthesize"))
                   => (Did(reqs[r], "search") /\ Len(reqs[r].rows) > 0)
            /\ CallsOf(reqs[r], "generate") # <<>>
                   => Did(reqs[r], "synthesize"))

\* an ask that went through the three steps, its search made while an upload
\* was in progress
C17_Witness ==
    \E r \in Askers :
        /\ reqs[r].kind = "ask"
        /\ reqs[r].steps = <<"embed", "search", "synthesize">>
        /\ reqs[r].response.status = "200"
        /\ reqs[r].during

\* the embedding a provider gives to a text
ProviderEmbedding(provider, text) ==
    IF provider = "gemini" THEN GeminiResponse(ai, text) ELSE GroqEmbedding(text)

\* C18: embed_many returns one vector per text, in the order of the texts, all
\* from one provider; when a provider has raised within the batch, the
\* vectors returned are those of the next provider, which was given every
\* text from the first on.
C18_BatchFromOneProvider ==
    \A w \in Writers :
        (reqs[w].kind = "upload" /\ reqs[w].pc \in {"store", "done"}
            /\ reqs[w].response.status # "502")
        => LET req == reqs[w]
               n == Len(req.texts)
           IN /\ Len(req.embeddings) = n
              /\ Len(req.providers) = n
              /\ \E p \in {"gemini", "groq"} :
                     /\ \A i \in 1..n :
                            /\ req.providers[i] = p
                            /\ req.embeddings[i] = ProviderEmbedding(p, req.texts[i])
                     /\ (\E i \in 1..Len(req.calls) : ~req.calls[i].ok)
                            => (/\ p = "groq"
                                /\ SelectSeq(req.calls,
                                       LAMBDA c : c.provider = "groq") =
                                   [i \in 1..n |-> Call("embed", "groq", i, TRUE)])

\* a batch of two texts on the second of which Gemini raised, embedded by the
\* fallback
C18_Witness ==
    \E w \in Writers :
        /\ reqs[w].kind = "upload"
        /\ reqs[w].pc \in {"store", "done"}
        /\ reqs[w].calls = <<Call("embed", "gemini", 1, TRUE),
                             Call("embed", "gemini", 2, FALSE),
                             Call("embed", "groq", 1, TRUE),
                             Call("embed", "groq", 2, TRUE)>>
        /\ reqs[w].providers = <<"groq", "groq">>

\* the providers configured
Configured == { p \in {"groq", "gemini"} : ai[p] }

\* the chain of this step was run by the request, and it ended with HTTP 502
ChainRun(req, step) == Did(req, step)

ChainFailed(req, step) ==
    /\ req.pc = "done"
    /\ req.steps[Len(req.steps)] = step
    /\ req.response.status = "502"

\* every configured provider was tried in the chain and raised
AllFailed(req, chain) ==
    \A p \in Configured :
        \E i \in 1..Len(CallsOf(req, chain)) :
            /\ CallsOf(req, chain)[i].provider = p
            /\ ~CallsOf(req, chain)[i].ok

\* C19: a call of the embedding chain or of the generation chain fails with
\* HTTP 502 if and only if no provider is configured or every configured
\* provider has failed in it; a failure followed by a success is not reported.
C19_FailsOnlyWhenAllProvidersFail ==
    \A r \in Requests :
        /\ ChainRun(reqs[r], "embed")
               => (ChainFailed(reqs[r], "embed") <=> AllFailed(reqs[r], "embed"))
        /\ ChainRun(reqs[r], "synthesize")
               => (ChainFailed(reqs[r], "synthesize")
                       <=> AllFailed(reqs[r], "generate"))

\* an ask answered by Gemini after Groq had failed to generate, and whose
\* question was embedded by the fallback after Gemini had failed to embed
C19_Witness ==
    \E r \in Askers :
        /\ reqs[r].pc = "done"
        /\ reqs[r].response.status = "200"
        /\ reqs[r].response.answer = "gemini"
        /\ reqs[r].calls = <<Call("embed", "gemini", 1, FALSE),
                             Call("embed", "groq", 1, TRUE),
                             Call("generate", "groq", 1, FALSE),
                             Call("generate", "gemini", 1, TRUE)>>

\* C20: synthesize calls Groq first and Gemini second, each at most once and
\* only when configured, Gemini only when Groq is not configured or has
\* raised, and the answer is that of the first call that succeeded.
C20_GenerationOrder ==
    \A r \in Askers :
        Did(reqs[r], "synthesize")
        => LET g == CallsOf(reqs[r], "generate")
           IN /\ g \in { <<>>,
                         <<Call("generate", "groq", 1, TRUE)>>,
                         <<Call("generate", "groq", 1, FALSE)>>,
                         <<Call("generate", "gemini", 1, TRUE)>>,
                         <<Call("generate", "gemini", 1, FALSE)>>,
                         <<Call("generate", "groq", 1, FALSE),
                           Call("generate", "gemini", 1, TRUE)>>,
                         <<Call("generate", "groq", 1, FALSE),
                           Call("generate", "gemini", 1, FALSE)>> }
              /\ \A i \in 1..Len(g) : g[i].provider \in Configured
              /\ (ai.groq /\ g # <<>>) => g[1].provider = "groq"
              /\ (ai.groq /\ ai.gemini /\ g # <<>> /\ ~g[1].ok) => Len(g) = 2
              /\ reqs[r].response.status = "200"
                     => (/\ g # <<>>
                         /\ g[Len(g)].ok
                         /\ reqs[r].response.answer = g[Len(g)].provider)

\* an ask answered by Groq with Gemini configured and not called
C20_Witness ==
    \E r \in Askers :
        /\ ai.groq /\ ai.gemini
        /\ reqs[r].steps = <<"embed", "search", "synthesize">>
        /\ CallsOf(reqs[r], "generate") = <<Call("generate", "groq", 1, TRUE)>>
        /\ reqs[r].response.answer = "groq"

\* C21: all embedding vectors persisted in the store have the same length,
\* whichever provider of the chain produced them, across any sequence of
\* ingests during which providers fail and recover.
C21_EmbeddingsOfOneLength ==
    \A a, b \in DOMAIN memory_db.embeddings :
        Len(memory_db.embeddings[a]) = Len(memory_db.embeddings[b])

\* the step of an upload at which the embedding chain gave up
EmbeddingFailed(w) ==
    /\ reqs[w].kind = "upload"
    /\ reqs[w].pc = "embed"
    /\ reqs'[w].pc = "done"
    /\ reqs'[w].response.status = "502"

\* C22: when the embedding chain fails during an ingest, nothing of that
\* document is persisted: the step leaves the store as it was, with no
\* document row and no chunk of that document; and after every step each
\* stored chunk has an embedding.
C22_FailedEmbeddingStoresNothing ==
    [][/\ \A w \in Writers :
              EmbeddingFailed(w)
              => /\ memory_db' = memory_db
                 /\ pg' = pg
                 /\ reqs[w].id \notin DOMAIN memory_db'.documents
                 /\ ChunksOf(memory_db'.chunks, reqs[w].id) = {}
       /\ \A i \in 1..Len(memory_db'.chunks) :
              /\ memory_db'.chunks[i].id \in DOMAIN memory_db'.embeddings
              /\ Len(memory_db'.embeddings[memory_db'.chunks[i].id]) > 0]_vars

\* an upload of two chunks ended by HTTP 502 after both providers raised,
\* while the store holds a chunk of an earlier upload
C22_Witness ==
    \E w \in Writers :
        /\ reqs[w].kind = "upload"
        /\ reqs[w].pc = "done"
        /\ reqs[w].response.status = "502"
        /\ Len(reqs[w].texts) = 2
        /\ \E i \in 1..Len(reqs[w].calls) : reqs[w].calls[i].provider = "groq"
        /\ Len(memory_db.chunks) > 0
        /\ reqs[w].id \notin DOMAIN memory_db.documents

\* the chunks of document d in a chunk table carry the indexes 0..N-1, N
\* their number, each once and in the order of the table
DenseIndexes(table, d) ==
    LET rows == ChunksOf(table, d)
    IN /\ { table[i].chunk_index : i \in rows } = 0..(Cardinality(rows) - 1)
       /\ \A i, j \in rows : i < j => table[i].chunk_index < table[j].chunk_index

\* C23: for every stored document with N chunks, the chunk_index values of
\* its chunks are exactly 0..N-1, with no gap and no repeat, in the order of
\* the chunk list passed to insert_document, after any sequence of
\* insert_document and delete_document calls (document ids may repeat).
C23_ChunkIndexDense ==
    /\ \A d \in DOMAIN memory_db.documents : DenseIndexes(memory_db.chunks, d)
    /\ \A d \in DOMAIN pg.documents : DenseIndexes(pg.document_chunks, d)

\* C24: for every text and every chunk_size and overlap with
\* 0 <= overlap < chunk_size, _chunk_text terminates: the cursor start
\* strictly advances on every iteration of the loop.
C24_CursorAdvances ==
    [][(chunking.pc = "loop" /\ chunking'.pc = "loop")
          => chunking'.start > chunking.start]_vars

\* C25: for every text, the empty and the blank ones included, and every
\* valid chunk_size and overlap, _chunk_text returns a non-empty sequence in
\* which every chunk is non-empty after trimming whitespace.
C25_ChunksNonEmpty ==
    chunking.pc = "returned"
    => /\ chunking.result # <<>>
       /\ \A i \in 1..Len(chunking.result) : Strip(chunking.result[i]) # <<>>

\* C26: for every text T with len(T) <= chunk_size, _chunk_text(T) returns
\* exactly the one-element sequence [T], T unmodified.
C26_ShortTextIsOneChunk ==
    (chunking.pc = "returned" /\ Len(chunking.text) <= chunking.chunk_size)
    => chunking.result = <<chunking.text>>

\* a text as long as chunk_size that begins with a blank, returned as it is
C26_Witness ==
    /\ chunking.pc = "returned"
    /\ Len(chunking.text) = chunking.chunk_size
    /\ chunking.text[1] = " "
    /\ chunking.text[Len(chunking.text)] = "a"
    /\ chunking.result = <<chunking.text>>

\* C27: for a text longer than chunk_size the windows [start, end) cover
\* every character position: the first window starts at 0, every next
\* window starts at a position >= 0 at or before the end of the previous
\* one, and the last window of a call that returns reaches the end of the text.
C27_WindowsCoverText ==
    LET w == chunking.windows
    IN Len(chunking.text) > chunking.chunk_size
       => /\ w # <<>> => w[1].start = 0
          /\ \A i \in 2..Len(w) : w[i].start >= 0 /\ w[i].start <= w[i - 1].end
          /\ chunking.pc = "returned"
                 => w # <<>> /\ w[Len(w)].end >= Len(chunking.text)

\* the cut C28 describes for the window [start, start + chunk_size)
DescribedCut(text, start, chunk_size) ==
    LET end == start + chunk_size
        sentence == { i \in Max(end - SENTENCE_LOOKBACK, start)..(end - 1) :
                          PyAt(text, i) \in Terminators }
        word == { i \in Max(end - WORD_LOOKBACK, start)..(end - 1) :
                      PyAt(text, i) = " " }
    IN IF sentence # {} THEN SetMax(sentence) + 1
       ELSE IF word # {} THEN SetMax(word)
       ELSE end

\* C28: for each window that ends before the end of the text, the cut is
\* placed just after the last sentence terminator among the last 100
\* characters of the window [start, start + chunk_size); if there is none,
\* at the last space among the last 50 characters of the window; otherwise
\* exactly at start + chunk_size.
C28_CutAtBoundary ==
    \A i \in 1..Len(chunking.windows) :
        LET w == chunking.windows[i]
        IN (w.start >= 0 /\ w.start + chunking.chunk_size < Len(chunking.text))
           => w.end = DescribedCut(chunking.text, w.start, chunking.chunk_size)

\* C29: every chunk returned by _chunk_text has length at most chunk_size: no
\* cut is placed beyond start + chunk_size.
C29_ChunkWithinChunkSize ==
    /\ \A i \in 1..Len(chunking.windows) :
           chunking.windows[i].end
               <= chunking.windows[i].start + chunking.chunk_size
    /\ chunking.pc = "returned"
           => \A i \in 1..Len(chunking.result) :
                  Len(chunking.result[i]) <= chunking.chunk_size

\* C30: every chunk after the first starts exactly overlap characters before
\* the end of the preceding chunk's window and contains at least one
\* character position beyond that end.
C30_ChunkGoesBeyondPredecessor ==
    \A i \in 2..Len(chunking.windows) :
        LET w == chunking.windows
        IN /\ w[i].start = w[i - 1].end - chunking.overlap
           /\ Min(w[i].end, Len(chunking.text)) > w[i - 1].end

\* the chunks the insert reported by last has stored, in the table of the
\* backend it ran on
JustStored ==
    LET table == IF last.conn = "pg" THEN pg.document_chunks ELSE memory_db.chunks
    IN { table[i] : i \in ChunksOf(table, last.id) }

\* C31: a chunk stored by a successful ingest stays retrievable: a search
\* that follows the ingest, with k at least the number of stored chunks,
\* returns it, whether the durable connection attempt of the search succeeds
\* or fails.
C31_StoredChunkStaysRetrievable ==
    [][(/\ last.op = "insert" /\ last.status = "ok" /\ ~last.mismatch
        /\ last'.op = "search" /\ last'.status = "ok"
        /\ last'.k >= Len(pg.document_chunks) + Len(memory_db.chunks))
       => \A chunk \in JustStored :
              \E j \in 1..Len(last'.rows) :
                  /\ last'.rows[j].document_id = chunk.document_id
                  /\ last'.rows[j].chunk_index = chunk.chunk_index
                  /\ last'.rows[j].content = chunk.content]_vars

\* C32: every durable connection acquired by a request (insert, delete,
\* search, list) or by init_database is closed exactly once before the
\* operation returns, on the normal path and on every exception path, so
\* that no durable connection remains open between the calls.
C32_ConnectionsClosed ==
    /\ last.opened \in {0, 1}
    /\ last.closed = last.opened
    /\ (last.conn = "pg" /\ last.op # "init") => last.opened = 1

\* a list request whose statement raised on PostgreSQL, its connection
\* acquired and closed
C32_Witness ==
    /\ last.op = "list"
    /\ last.conn = "pg"
    /\ last.status = "error"
    /\ last.opened = 1
    /\ last.closed = 1

\* a document is stored with all its chunks: its row and, in the order of
\* chunk_index, the chunks given
StoredWhole(documents, table, doc_id, chunks) ==
    LET rows == SelectRows(table, doc_id, TRUE)
    IN /\ doc_id \in DOMAIN documents
       /\ documents[doc_id].total_chunks = Len(chunks)
       /\ Len(rows) = Len(chunks)
       /\ \A k \in 1..Len(chunks) :
              rows[k].chunk_index = k - 1 /\ rows[k].content = chunks[k]

\* nothing of a document is stored: neither its row nor a chunk
NothingStored(documents, table, doc_id) ==
    doc_id \notin DOMAIN documents /\ ChunksOf(table, doc_id) = {}

\* the rows of both backends
RowCount(mem, durable) ==
    Cardinality(DOMAIN mem.documents) + Cardinality(DOMAIN durable.documents)
        + Len(mem.chunks) + Len(durable.document_chunks)

\* the rows the first n documents of a batch make: one and their chunks
RECURSIVE RowsOf(_, _)
RowsOf(documents, n) ==
    IF n = 0 THEN 0
    ELSE 1 + Len(documents[n].chunks) + RowsOf(documents, n - 1)

\* C33: when add_text_documents fails while processing its i-th document,
\* the documents before it stay stored with all their chunks, nothing of the
\* i-th and of the later documents is stored (the stores hold the rows of
\* the earlier documents and no other new row), and the caller receives
\* only the error response, without per-document results.
C33_BatchFailureKeepsEarlierDocuments ==
    [][(last'.op = "batch" /\ last'.failed_at > 0)
       => LET i == last'.failed_at
          IN /\ Len(last'.ids) = i
             /\ \A j \in 1..(i - 1) :
                    \/ StoredWhole(memory_db'.documents, memory_db'.chunks,
                                   last'.ids[j], last'.documents[j].chunks)
                    \/ StoredWhole(pg'.documents, pg'.document_chunks,
                                   last'.ids[j], last'.documents[j].chunks)
             /\ NothingStored(memory_db'.documents, memory_db'.chunks,
                              last'.ids[i])
             /\ NothingStored(pg'.documents, pg'.document_chunks, last'.ids[i])
             /\ RowCount(memory_db', pg')
                    = RowCount(memory_db, pg) + RowsOf(last'.documents, i - 1)
             /\ last'.status = "500"
             /\ DOMAIN last'.response = {"detail"}]_vars

\* a batch of two documents failed on its second document, the first one
\* stored with a chunk
C33_Witness ==
    /\ last.op = "batch"
    /\ last.status = "500"
    /\ last.failed_at = 2
    /\ Len(last.documents) = 2
    /\ Len(last.documents[1].chunks) > 0
    /\ \/ last.ids[1] \in DOMAIN memory_db.documents
       \/ last.ids[1] \in DOMAIN pg.documents

\* init_database has just run against the durable backend and switched the
\* process to the in-memory backend
InitSwitched ==
    /\ last'.op = "init"
    /\ last'.attempted
    /\ ~using_memory_db
    /\ using_memory_db'

\* C34 as stated: a failure to build the index on the embedding column does
\* not abort init_database and leaves the durable backend selected; only a
\* failure to connect or to create the tables switches to the in-memory
\* backend.
C34_OnlyConnectOrTablesSwitch ==
    [][/\ (last'.op = "init" /\ last'.outcome = "vector_index_failed")
           => (last'.status = "ok" /\ ~using_memory_db')
       /\ InitSwitched
           => last'.outcome \in {"connect_failed", "create_table_failed"}]_vars

\* C34, amended: a failure to build the index on the embedding column does
\* not abort init_database and leaves the durable backend selected; a
\* failure to connect, to create the tables or to create the index on
\* document_id switches to the in-memory backend, and nothing else does.
C34_VectorIndexBestEffort ==
    [][/\ (last'.op = "init" /\ last'.outcome = "vector_index_failed")
           => (last'.status = "ok" /\ ~using_memory_db')
       /\ (last'.op = "init" /\ last'.attempted)
           => (using_memory_db' <=>
                  last'.outcome \in {"connect_failed", "create_table_failed",
                                     "index_failed"})]_vars

\* init_database has failed to build the index on the embedding column and
\* the durable backend is still selected
C34_Witness ==
    /\ last.op = "init"
    /\ last.outcome = "vector_index_failed"
    /\ last.status = "ok"
    /\ last.conn = "pg"
    /\ ~using_memory_db

====
